---- MODULE Spec2Model ----
(***************************************************************************)
(* Model of llm-infer-stress: the stress test runner                       *)
(* (llm_infer/core/stress_test_runner.py), the cost tracker                *)
(* (llm_infer/core/cost_tracker.py), the metrics                           *)
(* (llm_infer/metrics/prometheus_metrics.py) and the result shapes of the  *)
(* clients (llm_infer/clients/*.py).                                       *)
(*                                                                         *)
(* Money is counted in integer cost units of 5e-8 USD, the largest unit in *)
(* which every per-token rate of MODEL_PRICING is a whole number, so the   *)
(* products (tokens / 1000) * rate are exact.  Floating point rounding of  *)
(* the Python code is not modelled.  Latencies are whole numbers of an     *)
(* arbitrary time unit; statistics that are fractions are kept as          *)
(* <<numerator, denominator>> pairs.  Response texts and metadata are left *)
(* out of the result records: no code modelled here reads them.            *)
(***************************************************************************)
EXTENDS Integers, Sequences, FiniteSets, TLC

VARIABLES
    pc,                 \* position of run_stress_test: idle, dispatch, done, aborted;
                        \* call, returned, threads where methods are called directly
    config,             \* the StressTestConfig of the run
    client,             \* the client object: its variant and its model attribute
    prompts,            \* the prompts of the run (local of run_stress_test)
    futures,            \* pooled dispatch: state of each submitted future
    results,            \* the results list being filled by the dispatcher
    report,             \* the StressTestResults returned, NoReport before
    failure,            \* the exception that left run_stress_test, None if none
    costs_history,      \* CostTracker.costs_history
    daily_costs,        \* CostTracker.daily_costs: day -> cost (a dict: partial)
    current_test_cost,  \* CostTracker.current_test_cost
    budget_config,      \* CostTracker.budget_config
    today,              \* the calendar day datetime.now() falls in
    before,             \* the tracker's fields when run_stress_test was called
    reordered,          \* whether the sort of line 256 changed the order
    call,               \* a direct call of a method and its result
    held,               \* the TestCost objects a caller of the tracker holds
    threads,            \* threads calling one shared object: position and locals
    sink                \* the PrometheusMetrics object: its lock and its metrics

vars == <<pc, config, client, prompts, futures, results, report, failure,
          costs_history, daily_costs, current_test_cost, budget_config, today,
          before, reordered, call, held, threads, sink>>

\* What only direct calls of the tracker and of the metrics object change.
directVars == <<held, threads, sink>>

\* What no action of the run changes.
fixedVars == <<config, client, budget_config, today, before, call, directVars>>

ledgerVars == <<costs_history, daily_costs, current_test_cost>>

---------------------------------------------------------------------------
(* Bounds of the model *)

MaxRequests == 3        \* num_requests ranges over 1..MaxRequests
MaxConcurrency == 2     \* concurrent_requests ranges over 1..MaxConcurrency
MaxLatency == 2         \* latencies range over 1..MaxLatency
MaxErrorTypes == 1      \* how many of a client's error messages are exercised
MaxRetries == 0         \* max_retries of the OpenAI client ranges over 0..MaxRetries
LargeRun == 200         \* a num_requests whose estimate is above the per-run limit
MaxOutputTokens == 1    \* output token counts range over LongReply * (1..MaxOutputTokens)

None == "None"

\* Cost units per US dollar (one unit is 5e-8 USD).
UnitsPerDollar == 2 * 10000000

---------------------------------------------------------------------------
(* cost_tracker.py *)

\* TokenCost per token, in cost units: rate per 1K tokens * UnitsPerDollar / 1000.
MODEL_PRICING ==
       "gpt-3.5-turbo"        :> [input |-> 30,  output |-> 40]
    @@ "gpt-3.5-turbo-1106"   :> [input |-> 20,  output |-> 40]
    @@ "gpt-4"                :> [input |-> 600, output |-> 1200]
    @@ "gpt-4-turbo"          :> [input |-> 200, output |-> 600]
    @@ "gpt-4-turbo-preview"  :> [input |-> 200, output |-> 600]
    @@ "gpt-4o"               :> [input |-> 100, output |-> 300]
    @@ "gpt-4o-mini"          :> [input |-> 3,   output |-> 12]
    @@ "claude-3-haiku"       :> [input |-> 5,   output |-> 25]
    @@ "claude-3-sonnet"      :> [input |-> 60,  output |-> 300]
    @@ "claude-3-opus"        :> [input |-> 300, output |-> 1500]
    @@ "claude-3-5-sonnet"    :> [input |-> 60,  output |-> 300]
    @@ "gemini-pro"           :> [input |-> 10,  output |-> 30]
    @@ "gemini-pro-vision"    :> [input |-> 10,  output |-> 30]
    @@ "gemini-1.5-pro"       :> [input |-> 140, output |-> 420]
    @@ "gemini-1.5-flash"     :> [input |-> 7,   output |-> 21]
    @@ "mock-gpt-3.5"         :> [input |-> 0,   output |-> 0]
    @@ "mock-gpt-4"           :> [input |-> 0,   output |-> 0]
    @@ "local-model"          :> [input |-> 0,   output |-> 0]
    @@ "ollama"               :> [input |-> 0,   output |-> 0]

\* BudgetConfig per CostTier, limits in cost units, warning_threshold as a
\* fraction <<numerator, denominator>>.
BUDGET_TIERS ==
    [ development |-> [daily_limit |-> 5 * UnitsPerDollar,
                       test_limit |-> 1 * UnitsPerDollar,
                       warning_threshold |-> <<4, 5>>, auto_stop |-> TRUE],
      demo        |-> [daily_limit |-> 25 * UnitsPerDollar,
                       test_limit |-> 10 * UnitsPerDollar,
                       warning_threshold |-> <<3, 4>>, auto_stop |-> FALSE],
      production  |-> [daily_limit |-> 100 * UnitsPerDollar,
                       test_limit |-> 50 * UnitsPerDollar,
                       warning_threshold |-> <<9, 10>>, auto_stop |-> FALSE] ]

\* dict.get(key, default)
Get(d, key, default) == IF key \in DOMAIN d THEN d[key] ELSE default

\* Mutant: a model that MODEL_PRICING does not name is priced at zero.
PriceUnknownAsFree(model, input_tokens, output_tokens, now) ==
    LET pricing == Get(MODEL_PRICING, model, [input |-> 0, output |-> 0])
        input_cost == input_tokens * pricing.input
        output_cost == output_tokens * pricing.output
    IN  [model |-> model,
         input_tokens |-> input_tokens,
         output_tokens |-> output_tokens,
         input_cost |-> input_cost,
         output_cost |-> output_cost,
         total_cost |-> input_cost + output_cost,
         timestamp |-> now,
         test_id |-> None]

\* CostTracker.calculate_request_cost: the TestCost of one request.
calculate_request_cost(model, input_tokens, output_tokens, now) ==
    LET pricing == Get(MODEL_PRICING, model, MODEL_PRICING["gpt-3.5-turbo"])
        input_cost == input_tokens * pricing.input
        output_cost == output_tokens * pricing.output
    IN  [model |-> model,
         input_tokens |-> input_tokens,
         output_tokens |-> output_tokens,
         input_cost |-> input_cost,
         output_cost |-> output_cost,
         total_cost |-> input_cost + output_cost,
         timestamp |-> now,
         test_id |-> None]

\* CostTracker.get_daily_cost
get_daily_cost(daily, date) == Get(daily, date, 0)

\* CostTracker.estimate_test_cost
estimate_test_cost(model, num_requests, avg_input_tokens, avg_output_tokens, now) ==
    calculate_request_cost(model, avg_input_tokens, avg_output_tokens, now).total_cost
        * num_requests

\* Mutant: an estimate equal to the test limit is refused.
CanAffordBelowLimit(budget, daily, model, num_requests, avg_in, avg_out, now) ==
    LET estimated_cost == estimate_test_cost(model, num_requests, avg_in, avg_out, now)
        today_cost == get_daily_cost(daily, now)
    IN  IF estimated_cost >= budget.test_limit
        THEN <<FALSE, "exceeds test limit">>
        ELSE IF today_cost + estimated_cost > budget.daily_limit
             THEN <<FALSE, "would exceed daily limit">>
             ELSE <<TRUE, "Test within budget">>

\* CostTracker.can_afford_test: <<can_afford, reason>>; the reason is kept as
\* the name of the limit it reports.
can_afford_test(budget, daily, model, num_requests, avg_in, avg_out, now) ==
    LET estimated_cost == estimate_test_cost(model, num_requests, avg_in, avg_out, now)
        today_cost == get_daily_cost(daily, now)
    IN  IF estimated_cost > budget.test_limit
        THEN <<FALSE, "exceeds test limit">>
        ELSE IF today_cost + estimated_cost > budget.daily_limit
             THEN <<FALSE, "would exceed daily limit">>
             ELSE <<TRUE, "Test within budget">>

\* CostTracker.record_test_cost on the tracker fields [history, daily, current].
\* _check_budget_warnings only logs: it changes no field and raises nothing.
record_test_cost(ledger, test_cost, test_id, now) ==
    [history |-> Append(ledger.history, [test_cost EXCEPT !.test_id = test_id]),
     current |-> ledger.current + test_cost.total_cost,
     daily   |-> (now :> (get_daily_cost(ledger.daily, now) + test_cost.total_cost))
                 @@ ledger.daily]

\* CostTracker.start_test
\* Mutant: the total of the current test is not reset.
StartTestKeeps(ledger) == ledger

start_test(ledger) == [ledger EXCEPT !.current = 0]

\* CostTracker._check_budget_warnings: the warnings it logs.  It raises
\* nothing and reads auto_stop nowhere.
check_budget_warnings(budget, ledger, now) ==
    LET today_cost == get_daily_cost(ledger.daily, now)
        threshold == budget.warning_threshold
    IN  (IF today_cost * threshold[2] >= budget.daily_limit * threshold[1]
         THEN {"Daily budget warning"} ELSE {})
        \cup
        (IF ledger.current * threshold[2] >= budget.test_limit * threshold[1]
         THEN {"Test budget warning"} ELSE {})

---------------------------------------------------------------------------
(* Prompts *)

\* A prompt is known by its text; the clients read only its number of words.
ShortPrompt == "What is artificial intelligence?"
LongPrompt == "Write a comprehensive analysis of renewable energy technologies"

\* A custom prompt that is not a string (custom_prompts is not validated).
BadPrompt == "<None>"

Prompts == {ShortPrompt, LongPrompt}

\* len(prompt.split())
WordCount(prompt) == IF prompt = ShortPrompt THEN 4 ELSE 8

---------------------------------------------------------------------------
(* Clients: what one call of run_prompt gives back.  A call either returns  *)
(* a result dict or raises; Returned and Raised wrap the two.               *)

Returned(result) == [raised |-> FALSE, result |-> result]
Raised(message) == [raised |-> TRUE, error |-> message]

Latencies == 1..MaxLatency

\* Words of a reply, and the token counts a backend may report for it.
ReplyWords == 10
OutputTokenCounts == {ReplyWords * k : k \in 1..MaxOutputTokens}

\* MockClient._generate_error_response.error_types
error_types ==
    << "Rate limit exceeded: Mock rate limit for testing",
       "Request timeout: Mock timeout error",
       "API error: Mock API error for testing",
       "Network error: Mock network issue" >>

\* MockClient._generate_success_response
generate_success_response(model, prompt, latency, token_count) ==
    [latency |-> latency,
     success |-> TRUE,
     error |-> None,
     model |-> model,
     input_tokens |-> WordCount(prompt),
     output_tokens |-> token_count,
     total_tokens |-> WordCount(prompt) + token_count]

\* MockClient._generate_error_response
generate_error_response(model, latency, error) ==
    [latency |-> latency,
     success |-> FALSE,
     error |-> error,
     model |-> model,
     input_tokens |-> 0,
     output_tokens |-> 0,
     total_tokens |-> 0]

\* MockClient.run_prompt: every outcome one call may have.  The method has
\* no exception handler: len(prompt) raises TypeError on a non-string prompt.
MockRunPrompt(model, prompt) ==
    IF prompt = BadPrompt
    THEN { Raised("object of type 'NoneType' has no len()") }
    ELSE { Returned(generate_success_response(model, prompt, l, t)) :
               l \in Latencies, t \in OutputTokenCounts }
         \cup
         { Returned(generate_error_response(model, l, error_types[e])) :
               l \in Latencies, e \in 1..MaxErrorTypes }

NoUsage == 0 - 1

\* The messages of the except clauses of OpenAIClient.run_prompt, in order.
openai_errors ==
    << "Rate limit exceeded", "Request timeout", "OpenAI API error", "Unexpected error" >>

\* What one attempt (one chat.completions.create call) may do: answer, with
\* or without a usage block, or raise one of the handled exceptions.
AttemptOutcomes(prompt) ==
    { [ok |-> TRUE, usage |-> u] :
          u \in {NoUsage} \cup {WordCount(prompt) + t : t \in OutputTokenCounts} }
    \cup
    { [ok |-> FALSE, error |-> openai_errors[e]] : e \in 1..MaxErrorTypes }

\* The for loop of OpenAIClient.run_prompt from attempt i on.
RECURSIVE OpenAIAttempts(_, _, _)
OpenAIAttempts(result, attempts, i) ==
    IF i > Len(attempts)
    THEN result
    ELSE IF attempts[i].ok
         THEN [result EXCEPT !.success = TRUE,
                             !.token_count = IF attempts[i].usage # NoUsage
                                             THEN attempts[i].usage ELSE @]
         ELSE OpenAIAttempts([result EXCEPT !.error = attempts[i].error],
                             attempts, i + 1)

\* OpenAIClient.run_prompt for one sequence of attempt outcomes; latency is
\* the time from start_time to the end of the last attempt made.  A
\* non-string prompt raises inside the try block and counts as
\* "Unexpected error" in every attempt.
OpenAIResult(model, attempts, latency) ==
    [ OpenAIAttempts([latency |-> 0, success |-> FALSE, error |-> None,
                      model |-> model, token_count |-> 0], attempts, 1)
      EXCEPT !.latency = latency ]

\* OpenAIClient.run_prompt: range(max_retries + 1) attempts at most.
OpenAIRunPrompt(model, max_retries, prompt) ==
    IF prompt = BadPrompt
    THEN { Returned(OpenAIResult(model,
               [i \in 1..(max_retries + 1) |-> [ok |-> FALSE, error |-> openai_errors[4]]],
               l)) : l \in Latencies }
    ELSE { Returned(OpenAIResult(model, a, l)) :
               a \in [1..(max_retries + 1) -> AttemptOutcomes(prompt)],
               l \in Latencies }

\* int(words * 1.3), the token estimate of the local clients.
EstimateTokens(words) == (13 * words) \div 10

\* The result dict of OllamaClient and HuggingFaceClient, from token counts
\* in tenths of a token (the estimates are fractional until int() is taken).
LocalSuccess(model_name, latency, prompt_tenths, eval_tenths) ==
    [latency |-> latency,
     success |-> TRUE,
     error |-> None,
     model |-> model_name,
     input_tokens |-> prompt_tenths \div 10,
     output_tokens |-> eval_tenths \div 10,
     total_tokens |-> (eval_tenths + prompt_tenths) \div 10]

\* OllamaClient._create_error_response and the except branch of
\* HuggingFaceClient.run_prompt
create_error_response(model_name, error_msg, latency) ==
    [latency |-> latency,
     success |-> FALSE,
     error |-> error_msg,
     model |-> model_name,
     input_tokens |-> 0,
     output_tokens |-> 0,
     total_tokens |-> 0]

\* The error messages of OllamaClient.run_prompt, in order.
ollama_errors ==
    << "Model is not available", "Ollama API error", "Request timeout",
       "Error during Ollama inference" >>

\* OllamaClient.run_prompt: the API reports eval_count and prompt_eval_count
\* (reported) or leaves them out, and then both are estimated from words.
OllamaRunPrompt(model_name, prompt) ==
    IF prompt = BadPrompt
    THEN { Returned(create_error_response(model_name, ollama_errors[4], l)) :
               l \in Latencies }
    ELSE { Returned(LocalSuccess(model_name, l,
               IF reported THEN 10 * WordCount(prompt) ELSE 13 * WordCount(prompt),
               IF reported THEN 10 * t ELSE 13 * ReplyWords)) :
               l \in Latencies, t \in OutputTokenCounts, reported \in BOOLEAN }
         \cup
         { Returned(create_error_response(model_name, ollama_errors[e], l)) :
               l \in Latencies, e \in 1..MaxErrorTypes }

\* HuggingFaceClient.run_prompt: tokens counted by the tokenizer (counted) or,
\* when that fails, estimated from words.
HuggingFaceRunPrompt(model_name, prompt) ==
    IF prompt = BadPrompt
    THEN { Returned(create_error_response(model_name,
               "Error during Hugging Face inference", l)) : l \in Latencies }
    ELSE { Returned(LocalSuccess(model_name, l,
               IF counted THEN 10 * WordCount(prompt) ELSE 13 * WordCount(prompt),
               IF counted THEN 10 * t ELSE 13 * ReplyWords)) :
               l \in Latencies, t \in OutputTokenCounts, counted \in BOOLEAN }
         \cup
         { Returned(create_error_response(model_name,
               "Error during Hugging Face inference", l)) : l \in Latencies }

\* The client objects: variant, the attribute `model` (NoAttr when the class
\* has none) and the model name the results carry.
NoAttr == "<no attribute>"

Clients ==
    { [kind |-> "mock", model |-> "mock-model", model_name |-> "mock-model"],
      [kind |-> "openai", model |-> "gpt-4", model_name |-> "gpt-4",
       max_retries |-> MaxRetries],
      [kind |-> "ollama", model |-> NoAttr, model_name |-> "llama2:7b"],
      [kind |-> "huggingface", model |-> "<AutoModelForCausalLM object>",
       model_name |-> "microsoft/DialoGPT-medium"] }

\* A client of the caller's own: an object with run_prompt and, as
\* OllamaClient, model_name but no attribute model, whose run_prompt has, as
\* MockClient's, no exception handler of its own.
UnguardedClient ==
    [kind |-> "unguarded", model |-> NoAttr, model_name |-> "llama2:7b"]

UnguardedFault == "Connection refused"

UnguardedRunPrompt(model_name, prompt) ==
    { Raised(UnguardedFault) }
    \cup
    { Returned(LocalSuccess(model_name, l, 10 * WordCount(prompt), 10 * t)) :
          l \in Latencies, t \in OutputTokenCounts }

\* client.run_prompt(prompt): dispatch on the variant.
RunPrompt(c, prompt) ==
    CASE c.kind = "mock" -> MockRunPrompt(c.model, prompt)
      [] c.kind = "openai" -> OpenAIRunPrompt(c.model, c.max_retries, prompt)
      [] c.kind = "ollama" -> OllamaRunPrompt(c.model_name, prompt)
      [] c.kind = "huggingface" -> HuggingFaceRunPrompt(c.model_name, prompt)
      [] c.kind = "unguarded" -> UnguardedRunPrompt(c.model_name, prompt)

---------------------------------------------------------------------------
(* stress_test_runner.py: pure parts *)

Min(a, b) == IF a <= b THEN a ELSE b

\* seq[:k]
Take(seq, k) == SubSeq(seq, 1, Min(k, Len(seq)))

\* The while loop of _generate_prompts: extend by custom_prompts[:n - len].
RECURSIVE ExtendPrompts(_, _, _)
ExtendPrompts(ps, custom_prompts, num_requests) ==
    IF Len(ps) < num_requests
    THEN ExtendPrompts(ps \o Take(custom_prompts, num_requests - Len(ps)),
                       custom_prompts, num_requests)
    ELSE ps

\* Mutant: past the end of custom_prompts the last one is repeated.
PromptsNotCycled(cfg, generated) ==
    IF cfg.custom_prompts # <<>>
    THEN [k \in 1..cfg.num_requests |->
             cfg.custom_prompts[Min(k, Len(cfg.custom_prompts))]]
    ELSE generated

\* StressTestRunner._generate_prompts; generated is what
\* PromptGenerator.get_multiple_prompts returns (random choices).
generate_prompts(cfg, generated) ==
    IF cfg.custom_prompts # <<>>
    THEN Take(ExtendPrompts(Take(cfg.custom_prompts, cfg.num_requests),
                            cfg.custom_prompts, cfg.num_requests),
              cfg.num_requests)
    ELSE generated

\* Mutant: the request id is the 0-based index of the prompt.
TagZeroBased(result, request_id, prompt) ==
    ("request_id" :> (request_id - 1)) @@ ("prompt" :> prompt) @@ result

\* result["request_id"] = ...; result["prompt"] = ...
Tag(result, request_id, prompt) ==
    ("request_id" :> request_id) @@ ("prompt" :> prompt) @@ result

\* The error_result dict built in the except branch of _run_concurrent_requests.
error_result(request_id, prompt, message, model) ==
    [request_id |-> request_id,
     prompt |-> prompt,
     latency |-> 0,
     success |-> FALSE,
     error |-> message,
     model |-> model,
     token_count |-> 0]

\* The sort key of an element: key=lambda x: x["request_id"] for the results,
\* the element itself for sorted(data).
ByRequestId == "request_id"
ByValue == "value"
KeyOf(by, x) == IF by = ByRequestId THEN x["request_id"] ELSE x

\* Insert x into the sorted sequence s behind every element whose key is not
\* larger (list.sort and sorted are stable).
RECURSIVE InsertBy(_, _, _)
InsertBy(by, s, x) ==
    IF s = <<>> THEN <<x>>
    ELSE IF KeyOf(by, x) < KeyOf(by, Head(s))
         THEN <<x>> \o s
         ELSE <<Head(s)>> \o InsertBy(by, Tail(s), x)

RECURSIVE SortBy(_, _)
SortBy(by, s) ==
    IF s = <<>> THEN <<>>
    ELSE InsertBy(by, SortBy(by, SubSeq(s, 1, Len(s) - 1)), s[Len(s)])

\* Mutant: the results stay in completion order.
SortSkipped(rs) == rs

\* results.sort(key=lambda x: x["request_id"])
SortByRequestId(rs) == SortBy(ByRequestId, rs)

\* sorted(data)
Sorted(data) == SortBy(ByValue, data)

RECURSIVE Sum(_)
Sum(seq) == IF seq = <<>> THEN 0 ELSE Head(seq) + Sum(Tail(seq))

\* min(data) and max(data) of a non-empty list
RECURSIVE MinOf(_)
MinOf(data) ==
    IF Len(data) = 1 THEN data[1]
    ELSE LET m == MinOf(Tail(data)) IN IF m < Head(data) THEN m ELSE Head(data)

RECURSIVE MaxOf(_)
MaxOf(data) ==
    IF Len(data) = 1 THEN data[1]
    ELSE LET m == MaxOf(Tail(data)) IN IF m > Head(data) THEN m ELSE Head(data)

\* Mutant: the percentile is read from the data as given, not sorted.
PercentileUnsorted(data, percentile) ==
    IF data = <<>> THEN <<0, 1>>
    ELSE LET index100 == percentile * (Len(data) - 1)
             lower_index == index100 \div 100
             weight100 == index100 % 100
         IN  IF weight100 = 0
             THEN <<data[lower_index + 1], 1>>
             ELSE <<data[lower_index + 1] * (100 - weight100)
                      + data[lower_index + 2] * weight100, 100>>

\* Mutant: the element at the floor of the index, without interpolation.
PercentileNearestRank(data, percentile) ==
    IF data = <<>> THEN <<0, 1>>
    ELSE <<Sorted(data)[((percentile * (Len(data) - 1)) \div 100) + 1], 1>>

\* StressTestRunner._calculate_percentile, as a fraction <<num, den>>:
\* index = (percentile / 100) * (len - 1), kept in hundredths.
calculate_percentile(data, percentile) ==
    IF data = <<>> THEN <<0, 1>>
    ELSE LET sorted_data == Sorted(data)
             index100 == percentile * (Len(sorted_data) - 1)
             lower_index == index100 \div 100
             upper_index == lower_index + 1
             weight100 == index100 % 100
         IN  IF weight100 = 0
             THEN <<sorted_data[lower_index + 1], 1>>
             ELSE <<sorted_data[lower_index + 1] * (100 - weight100)
                      + sorted_data[upper_index + 1] * weight100, 100>>

\* statistics.median, as a fraction
median(data) ==
    LET s == Sorted(data)
        n == Len(s)
    IN  IF n % 2 = 1 THEN <<s[(n \div 2) + 1], 1>>
        ELSE <<s[n \div 2] + s[(n \div 2) + 1], 2>>

\* statistics.mean, as a fraction
mean(data) == <<Sum(data), Len(data)>>

\* Mutant: every message is entered with the count 1.
CountErrorsOnce(errors, failed_results) ==
    [error_type \in {Get(failed_results[i], "error", "Unknown error") :
                         i \in DOMAIN failed_results} |-> 1]

\* The error analysis loop of _calculate_metrics.
RECURSIVE CountErrors(_, _)
CountErrors(errors, failed_results) ==
    IF failed_results = <<>> THEN errors
    ELSE LET error_type == Get(Head(failed_results), "error", "Unknown error")
         IN  CountErrors((error_type :> (Get(errors, error_type, 0) + 1)) @@ errors,
                         Tail(failed_results))

IsSuccess(r) == r["success"]

\* Mutant: a result counts as failed when it carries an error message.
IsFailureByMessage(r) == r["error"] # None

IsFailure(r) == ~r["success"]

\* StressTestRunner._calculate_metrics (times and throughput left out).
calculate_metrics(rs, cfg) ==
    LET successful_results == SelectSeq(rs, IsSuccess)
        failed_results == SelectSeq(rs, IsFailure)
        total_requests == Len(rs)
        successful_requests == Len(successful_results)
        latencies == [i \in 1..Len(successful_results) |-> successful_results[i]["latency"]]
        some == latencies # <<>>
    IN  [total_requests |-> total_requests,
         successful_requests |-> successful_requests,
         failed_requests |-> Len(failed_results),
         success_rate |-> IF total_requests > 0
                          THEN <<successful_requests, total_requests>> ELSE <<0, 1>>,
         min_latency |-> IF some THEN MinOf(latencies) ELSE 0,
         max_latency |-> IF some THEN MaxOf(latencies) ELSE 0,
         avg_latency |-> IF some THEN mean(latencies) ELSE <<0, 1>>,
         median_latency |-> IF some THEN median(latencies) ELSE <<0, 1>>,
         p95_latency |-> IF some THEN calculate_percentile(latencies, 95) ELSE <<0, 1>>,
         total_tokens |-> Sum([i \in 1..Len(successful_results) |->
                                  Get(successful_results[i], "token_count", 0)]),
         errors |-> CountErrors(<<>>, failed_results),
         individual_results |-> rs,
         returned |-> TRUE,
         total_cost |-> 0,
         avg_cost_per_request |-> <<0, 1>>]

\* Mutant: the cost loop does not test result['success'].
RECURSIVE RecordCostsAll(_, _, _, _, _, _)
RecordCostsAll(acc, rs, i, model_name, test_name, now) ==
    IF i > Len(rs) THEN acc
    ELSE LET input_tokens == Get(rs[i], "input_tokens", 50)
             output_tokens == Get(rs[i], "token_count", 100) - input_tokens
             cost == calculate_request_cost(model_name, input_tokens,
                                            output_tokens, now)
         IN  RecordCostsAll([ledger |-> record_test_cost(acc.ledger, cost, test_name, now),
                             total_cost |-> acc.total_cost + cost.total_cost],
                            rs, i + 1, model_name, test_name, now)

\* The cost loop of run_stress_test (lines 131-142) from result i on:
\* acc = [ledger, total_cost].
RECURSIVE RecordCosts(_, _, _, _, _, _)
RecordCosts(acc, rs, i, model_name, test_name, now) ==
    IF i > Len(rs) THEN acc
    ELSE IF Get(rs[i], "success", FALSE)
         THEN LET input_tokens == Get(rs[i], "input_tokens", 50)
                  output_tokens == Get(rs[i], "token_count", 100) - input_tokens
                  cost == calculate_request_cost(model_name, input_tokens,
                                                 output_tokens, now)
              IN  RecordCosts([ledger |-> record_test_cost(acc.ledger, cost, test_name, now),
                               total_cost |-> acc.total_cost + cost.total_cost],
                              rs, i + 1, model_name, test_name, now)
         ELSE RecordCosts(acc, rs, i + 1, model_name, test_name, now)

---------------------------------------------------------------------------
(* The run: StressTestRunner.run_stress_test as a state machine.  The client *)
(* calls are its blocking points; in pooled dispatch the worker threads of   *)
(* the ThreadPoolExecutor run between them.                                  *)

NoMaxCost == 0 - 1         \* max_cost = None
NoReport == [returned |-> FALSE]
TestName == "stress_test"

NoCall == [op |-> None]
\* The fixed token assumptions of the budget check (lines 98-100).
AvgInputTokens == 50
AvgOutputTokens == 100

\* getattr(self.client, 'model', 'unknown')
ModelName(c) == IF c.model = NoAttr THEN "unknown" ELSE c.model

Ledger == [history |-> costs_history, daily |-> daily_costs, current |-> current_test_cost]

\* No caller holds a TestCost, no thread is started, and no PrometheusMetrics
\* object has been constructed.
NoSink == [lock |-> None]
NoDirect == held = {} /\ threads = <<>> /\ sink = NoSink

\* The custom_prompts a config may carry; <<>> stands for None.
CustomPromptChoices ==
    { <<>>, <<ShortPrompt, LongPrompt>>, <<ShortPrompt, BadPrompt>> }

Configs ==
    [ num_requests : 1..MaxRequests,
      concurrent_requests : 1..MaxConcurrency,
      custom_prompts : CustomPromptChoices,
      max_cost : {NoMaxCost, 2 * UnitsPerDollar},
      save_results : {TRUE} ]
    \cup
    [ num_requests : {1},
      concurrent_requests : 1..MaxConcurrency,
      custom_prompts : {<<>>},
      max_cost : {NoMaxCost},
      save_results : {FALSE} ]
    \cup
    [ num_requests : {LargeRun},
      concurrent_requests : 1..MaxConcurrency,
      custom_prompts : CustomPromptChoices,
      max_cost : {NoMaxCost},
      save_results : {TRUE} ]

\* States a CostTracker is in when a run starts: just constructed without a
\* history file; and after an earlier run recorded one request, with a
\* history file whose total for today is already above the daily limit.
EarlierCost == calculate_request_cost("gpt-4", AvgInputTokens, AvgOutputTokens, 1)

TrackerStates ==
    { [history |-> <<>>, daily |-> <<>>, current |-> 0],
      [history |-> <<EarlierCost>>,
       daily |-> (1 :> (BUDGET_TIERS.development.daily_limit + 1)),
       current |-> EarlierCost.total_cost] }

\* A run of LargeRun requests is started only where the budget check stops
\* it: with the OpenAI client (gpt-4) and no max_cost.
Init ==
    /\ pc = "idle"
    /\ config \in Configs
    /\ client \in Clients
    /\ config.num_requests = LargeRun => client.kind = "openai"
    /\ budget_config = BUDGET_TIERS.development
    /\ reordered = FALSE
    /\ call = NoCall
    /\ prompts = <<>>
    /\ futures = <<>>
    /\ results = <<>>
    /\ report = NoReport
    /\ failure = None
    /\ today = 1
    /\ NoDirect
    /\ \E t \in TrackerStates :
          /\ costs_history = t.history
          /\ daily_costs = t.daily
          /\ current_test_cost = t.current
          /\ before = t

\* PromptGenerator.get_multiple_prompts(prompt_type, n, allow_duplicates=True):
\* n random choices among the templates of the type.
Generated(n) == [1..n -> {ShortPrompt}]

\* Mutant: the test on max_cost is inverted.
BlockedOnlyWithMaxCost(check, max_cost) == ~check[1] /\ max_cost # NoMaxCost

\* The condition of line 102: not can_afford and config.max_cost is None.
Blocked(check, max_cost) == ~check[1] /\ max_cost = NoMaxCost

\* run_stress_test, lines 92-119: the budget check, start_test, the prompts,
\* and in pooled dispatch the submission of every prompt to the executor.
StartRun ==
    /\ pc = "idle"
    /\ LET check == can_afford_test(budget_config, daily_costs, ModelName(client),
                        config.num_requests, AvgInputTokens, AvgOutputTokens, today)
       IN  IF Blocked(check, config.max_cost)
           THEN /\ pc' = "aborted"
                /\ failure' = "Budget exceeded: " \o check[2]
                /\ UNCHANGED <<prompts, futures, current_test_cost>>
           ELSE /\ current_test_cost' = start_test(Ledger).current
                /\ \E generated \in Generated(config.num_requests) :
                      prompts' = generate_prompts(config, generated)
                /\ IF config.concurrent_requests > 1
                   THEN /\ pc' = "concurrent"
                        /\ futures' = [k \in 1..Len(prompts') |->
                                          [state |-> "pending"]]
                   ELSE /\ pc' = "sequential"
                        /\ futures' = futures
                /\ failure' = failure
    /\ UNCHANGED <<results, report, costs_history, daily_costs, reordered, fixedVars>>

\* One iteration of the loop of _run_sequential_requests: the call is not
\* guarded, an exception of run_prompt leaves run_stress_test.
SequentialRequest ==
    /\ pc = "sequential"
    /\ Len(results) < Len(prompts)
    /\ LET i == Len(results) + 1 IN
       \E o \in RunPrompt(client, prompts[i]) :
          IF o.raised
          THEN /\ pc' = "aborted"
               /\ failure' = o.error
               /\ results' = results
          ELSE /\ results' = Append(results, Tag(o.result, i, prompts[i]))
               /\ UNCHANGED <<pc, failure>>
    /\ UNCHANGED <<prompts, futures, report, ledgerVars, reordered, fixedVars>>

InFlight == {k \in DOMAIN futures : futures[k].state = "running"}
Pending == {k \in DOMAIN futures : futures[k].state = "pending"}

\* Mutant: a queued call is started whatever the number of running calls.
WorkerStartUnbounded(k) ==
    /\ pc \in {"concurrent", "unwinding"}
    /\ k \in Pending
    /\ futures' = [futures EXCEPT ![k].state = "running"]
    /\ UNCHANGED <<pc, prompts, results, report, failure, ledgerVars, reordered,
                   fixedVars>>

\* A worker thread of the executor takes the oldest queued call; there are
\* max_workers = concurrent_requests threads.  The threads go on taking
\* calls while an exception unwinds the with block ("unwinding"): the exit
\* of the ThreadPoolExecutor waits for every submitted call.
WorkerStart(k) ==
    /\ pc \in {"concurrent", "unwinding"}
    /\ k \in Pending
    /\ \A j \in Pending : k <= j
    /\ Cardinality(InFlight) < config.concurrent_requests
    /\ futures' = [futures EXCEPT ![k].state = "running"]
    /\ UNCHANGED <<pc, prompts, results, report, failure, ledgerVars, reordered,
                   fixedVars>>

\* The call of run_prompt in worker k ends and the as_completed loop of
\* _run_concurrent_requests takes its future (lines 233-253): futures are
\* taken in the order in which their calls end.  Building error_result reads
\* self.client.model, which raises AttributeError for a client without that
\* attribute: the exception leaves the loop, and run_stress_test once the
\* executor has run the calls still outstanding, whose results are dropped.
WorkerFinish(k) ==
    /\ pc \in {"concurrent", "unwinding"}
    /\ k \in InFlight
    /\ futures' = [futures EXCEPT ![k].state = "done"]
    /\ LET last == \A j \in DOMAIN futures : j # k => futures[j].state = "done"
       IN  IF pc = "unwinding"
           THEN /\ pc' = IF last THEN "aborted" ELSE pc
                /\ UNCHANGED <<results, failure>>
           ELSE \E o \in RunPrompt(client, prompts[k]) :
                   IF ~o.raised
                   THEN /\ results' = Append(results, Tag(o.result, k, prompts[k]))
                        /\ UNCHANGED <<pc, failure>>
                   ELSE IF client.model = NoAttr
                        THEN /\ pc' = IF last THEN "aborted" ELSE "unwinding"
                             /\ failure' = "object has no attribute 'model'"
                             /\ results' = results
                        ELSE /\ results' = Append(results,
                                      error_result(k, prompts[k], o.error, client.model))
                             /\ UNCHANGED <<pc, failure>>
    /\ UNCHANGED <<prompts, report, ledgerVars, reordered, fixedVars>>

\* The dispatcher has every result: the concurrent one sorts them (line 256).
Dispatched ==
    \/ pc = "sequential" /\ Len(results) = Len(prompts)
    \/ pc = "concurrent" /\ \A k \in DOMAIN futures : futures[k].state = "done"

DispatchResults ==
    IF pc = "concurrent" THEN SortByRequestId(results) ELSE results

\* What writing the report file may do (_save_results, lines 359-383):
\* output_dir.mkdir and open succeed, or raise OSError.
SaveError == "[Errno 13] Permission denied: 'results'"
SaveOutcomes == {None, SaveError}

\* run_stress_test, lines 121-163: the metrics, the cost of every successful
\* result, save_cost_history (which logs its own exceptions), the report
\* file when config.save_results, and the return of the report.  The call
\* of _save_results (lines 155-156) is in no try block: an exception of it
\* leaves run_stress_test after the costs were recorded.
Complete ==
    /\ Dispatched
    /\ LET rs == DispatchResults
           metrics == calculate_metrics(rs, config)
           costs == RecordCosts([ledger |-> Ledger, total_cost |-> 0], rs, 1,
                                ModelName(client), TestName, today)
       IN  /\ results' = rs
           /\ reordered' = (rs # results)
           /\ costs_history' = costs.ledger.history
           /\ daily_costs' = costs.ledger.daily
           /\ current_test_cost' = costs.ledger.current
           /\ \E saved \in (IF config.save_results THEN SaveOutcomes ELSE {None}) :
                 IF saved = None
                 THEN /\ report' = [metrics EXCEPT
                            !.total_cost = costs.total_cost,
                            !.avg_cost_per_request =
                                IF metrics.total_requests > 0
                                THEN <<costs.total_cost, metrics.total_requests>>
                                ELSE <<0, 1>>]
                      /\ pc' = "done"
                      /\ failure' = failure
                 ELSE /\ report' = report
                      /\ pc' = "aborted"
                      /\ failure' = saved
    /\ UNCHANGED <<prompts, futures, fixedVars>>

Next ==
    \/ StartRun
    \/ SequentialRequest
    \/ \E k \in 1..MaxRequests : WorkerStart(k)
    \/ \E k \in 1..MaxRequests : WorkerFinish(k)
    \/ Complete

Spec == Init /\ [][Next]_vars

---------------------------------------------------------------------------
(* The run with any client the runner is constructed with, the caller's own *)
(* among them, and the threads of the pool scheduled fairly.                *)

PoolConfigs ==
    [ num_requests : 1..MaxRequests,
      concurrent_requests : 1..MaxConcurrency,
      custom_prompts : {<<>>, <<ShortPrompt, BadPrompt>>},
      max_cost : {NoMaxCost},
      save_results : {FALSE} ]

InitPool ==
    /\ pc = "idle"
    /\ config \in PoolConfigs
    /\ client \in Clients \cup {UnguardedClient}
    /\ budget_config = BUDGET_TIERS.development
    /\ reordered = FALSE
    /\ call = NoCall
    /\ prompts = <<>>
    /\ futures = <<>>
    /\ results = <<>>
    /\ report = NoReport
    /\ failure = None
    /\ today = 1
    /\ NoDirect
    /\ costs_history = <<>> /\ daily_costs = <<>> /\ current_test_cost = 0
    /\ before = Ledger

SpecPool == InitPool /\ [][Next]_vars

\* The worker threads of the executor run: a queued call that a free
\* thread can take is taken, and a call that was made ends.
FairSpecPool ==
    /\ SpecPool
    /\ WF_vars(\E k \in 1..MaxRequests : WorkerStart(k))
    /\ WF_vars(\E k \in 1..MaxRequests : WorkerFinish(k))

---------------------------------------------------------------------------
(* Direct calls of CostTracker methods, on trackers of every tier. *)

\* The config and client of the states in which no run is under way.
IdleConfig == [num_requests |-> 1, concurrent_requests |-> 1,
               custom_prompts |-> <<>>, max_cost |-> NoMaxCost,
               save_results |-> TRUE]
IdleClient == [kind |-> "mock", model |-> "mock-model", model_name |-> "mock-model"]

Tiers == {"development", "demo", "production"}

\* Arguments of can_afford_test: 500 requests of 100 + 100 tokens to gpt-4o
\* are estimated at exactly one dollar, the test limit of the development tier.
AffordCalls ==
    [ op : {"can_afford_test"},
      model : {"gpt-4o", "gpt-4", "mock-model"},
      num_requests : {1, 500, 501},
      avg_tokens : {<<AvgInputTokens, AvgOutputTokens>>, <<100, 100>>},
      ret : {<<>>} ]

\* The total of today in daily_costs: none yet, one dollar below the daily
\* limit, one unit more than that, and above the limit.
DailyChoices(budget) ==
    { <<>> } \cup { 1 :> v : v \in { budget.daily_limit - UnitsPerDollar,
                                     budget.daily_limit - UnitsPerDollar + 1,
                                     budget.daily_limit + 1 } }

InitTracker ==
    /\ pc = "call"
    /\ call \in AffordCalls
    /\ \E tier \in Tiers : budget_config = BUDGET_TIERS[tier]
    /\ daily_costs \in DailyChoices(budget_config)
    /\ costs_history = <<>>
    /\ current_test_cost = 0
    /\ today = 1
    /\ config = IdleConfig
    /\ client = IdleClient
    /\ prompts = <<>> /\ futures = <<>> /\ results = <<>>
    /\ report = NoReport
    /\ failure = None
    /\ reordered = FALSE
    /\ before = Ledger
    /\ NoDirect

\* tracker.can_afford_test(model, num_requests, avg_input_tokens, avg_output_tokens)
CanAffordTest ==
    /\ pc = "call"
    /\ call.op = "can_afford_test"
    /\ call' = [call EXCEPT !.ret = can_afford_test(budget_config, daily_costs,
                    call.model, call.num_requests, call.avg_tokens[1],
                    call.avg_tokens[2], today)]
    /\ pc' = "returned"
    /\ UNCHANGED <<config, client, prompts, futures, results, report, failure,
                   ledgerVars, budget_config, today, before, reordered, directVars>>

NextTracker == CanAffordTest

SpecTracker == InitTracker /\ [][NextTracker]_vars

---------------------------------------------------------------------------
(* Direct calls of _calculate_metrics on lists of results. *)

MaxResults == 3         \* the lists of results have 0..MaxResults entries

\* Results the dispatchers hand over: what the mock client and an OpenAI
\* client with one retry return for a prompt, and the error_result of a
\* raised call.
MetricSamples ==
    { o.result : o \in MockRunPrompt("mock-model", ShortPrompt)
                       \cup OpenAIRunPrompt("gpt-4", 1, ShortPrompt) }
    \cup { error_result(0, ShortPrompt, "fault", "mock-model") }

InitMetrics ==
    /\ pc = "call"
    /\ call = [op |-> "_calculate_metrics"]
    /\ results = <<>>
    /\ report = NoReport
    /\ config = IdleConfig
    /\ client = IdleClient
    /\ budget_config = BUDGET_TIERS.development
    /\ costs_history = <<>> /\ daily_costs = <<>> /\ current_test_cost = 0
    /\ today = 1
    /\ prompts = <<>> /\ futures = <<>>
    /\ failure = None
    /\ reordered = FALSE
    /\ before = Ledger
    /\ NoDirect

\* The caller puts one more result on the list it will hand over.
AppendResult ==
    /\ pc = "call"
    /\ call.op = "_calculate_metrics"
    /\ Len(results) < MaxResults
    /\ \E r \in MetricSamples :
          results' = Append(results, Tag(r, Len(results) + 1, ShortPrompt))
    /\ UNCHANGED <<pc, config, client, prompts, futures, report, failure, ledgerVars,
                   budget_config, today, before, reordered, call, directVars>>

\* runner._calculate_metrics(results, config, ...)
CalculateMetrics ==
    /\ pc = "call"
    /\ call.op = "_calculate_metrics"
    /\ report' = calculate_metrics(results, config)
    /\ pc' = "returned"
    /\ UNCHANGED <<config, client, prompts, futures, results, failure, ledgerVars,
                   budget_config, today, before, reordered, call, directVars>>

NextMetrics == AppendResult \/ CalculateMetrics

SpecMetrics == InitMetrics /\ [][NextMetrics]_vars

---------------------------------------------------------------------------
(* Direct calls of _calculate_percentile on lists of numbers. *)

MaxData == 5            \* the lists have 0..MaxData numbers
MaxValue == 5           \* the numbers range over 1..MaxValue

\* The variables of the run and of the tracker in the states in which only
\* one method is called directly.
runVars == <<config, client, prompts, futures, results, report, failure, reordered>>
trackerVars == <<ledgerVars, budget_config, today, before>>

IdleRun ==
    /\ config = IdleConfig
    /\ client = IdleClient
    /\ prompts = <<>> /\ futures = <<>> /\ results = <<>>
    /\ report = NoReport
    /\ failure = None
    /\ reordered = FALSE

FreshTracker ==
    /\ budget_config = BUDGET_TIERS.development
    /\ costs_history = <<>> /\ daily_costs = <<>> /\ current_test_cost = 0
    /\ today = 1
    /\ before = Ledger

\* The lists handed to _calculate_percentile, among them [10].
PercentileData ==
    UNION { [1..n -> 1..MaxValue] : n \in 0..MaxData } \cup { <<10>> }

Percentiles == {0, 50, 95, 100}

\* data is the caller's list before the call, list_after the same list
\* object after it.
InitPercentile ==
    /\ pc = "call"
    /\ \E data \in PercentileData, percentile \in Percentiles :
          call = [op |-> "_calculate_percentile", data |-> data,
                  percentile |-> percentile, list_after |-> data, ret |-> <<>>]
    /\ IdleRun
    /\ FreshTracker
    /\ NoDirect

\* runner._calculate_percentile(data, percentile): sorted(data) builds a new
\* list, the list of the caller is not written.
CalculatePercentile ==
    /\ pc = "call"
    /\ call.op = "_calculate_percentile"
    /\ call' = [call EXCEPT !.ret = calculate_percentile(call.data, call.percentile),
                            !.list_after = call.data]
    /\ pc' = "returned"
    /\ UNCHANGED <<runVars, trackerVars, directVars>>

NextPercentile == CalculatePercentile

SpecPercentile == InitPercentile /\ [][NextPercentile]_vars

---------------------------------------------------------------------------
(* Direct calls of the CostTracker methods that price, record and summarise, *)
(* over several days.  A timestamp is kept as its calendar day, and          *)
(* datetime.now() - timedelta(days) as the day today - days.                 *)

MaxDays == 4            \* the days are 1..MaxDays
MaxHeld == 1            \* the caller holds at most MaxHeld TestCost objects
MaxHistory == 2         \* at most MaxHistory costs are recorded

\* Arguments of calculate_request_cost: those of test.py, the same tokens for
\* a model that MODEL_PRICING does not name, and gpt-4 requests priced between
\* the warning threshold of the test limit and that limit, and above the
\* daily limit, of the development tier.
PriceArgs ==
    { <<"gpt-3.5-turbo", 100, 50>>, <<"llama2:7b", 100, 50>>,
      <<"gpt-4", 10000, 10000>>, <<"gpt-4", 100000, 50000>> }

WindowDays == {1, 2}

\* list(self.daily_costs.items())[-days:] as a dict.  The keys of daily_costs
\* are written by record_test_cost under datetime.now(), so they are inserted
\* in ascending order of the day: the last `days` items are those of the
\* `days` latest days.
LastItems(daily, days) ==
    LET last == {k \in DOMAIN daily :
                    Cardinality({j \in DOMAIN daily : j > k}) < days}
    IN  [k \in last |-> daily[k]]

\* The model breakdown loop of get_cost_summary.
RECURSIVE ModelCosts(_, _)
ModelCosts(model_costs, recent_costs) ==
    IF recent_costs = <<>> THEN model_costs
    ELSE LET cost == Head(recent_costs)
             seen == Get(model_costs, cost.model, [cost |-> 0, requests |-> 0])
         IN  ModelCosts((cost.model :> [cost |-> seen.cost + cost.total_cost,
                                        requests |-> seen.requests + 1])
                            @@ model_costs,
                        Tail(recent_costs))

\* CostTracker._get_budget_status (the limits and what is used of them)
get_budget_status(budget, ledger, now) ==
    [daily_used |-> get_daily_cost(ledger.daily, now),
     daily_limit |-> budget.daily_limit,
     test_used |-> ledger.current,
     test_limit |-> budget.test_limit]

\* CostTracker.get_cost_summary
get_cost_summary(budget, ledger, days, now) ==
    LET cutoff_date == now - days
        Recent(cost) == cost.timestamp >= cutoff_date
        recent_costs == SelectSeq(ledger.history, Recent)
        total_cost == Sum([i \in DOMAIN recent_costs |-> recent_costs[i].total_cost])
        total_requests == Len(recent_costs)
    IN  IF recent_costs = <<>>
        THEN [total_cost |-> 0,
              avg_daily_cost |-> <<0, 1>>,
              total_requests |-> 0,
              avg_cost_per_request |-> <<0, 1>>,
              model_breakdown |-> <<>>,
              daily_costs |-> <<>>,
              budget_status |-> get_budget_status(budget, ledger, now)]
        ELSE [total_cost |-> total_cost,
              avg_daily_cost |-> <<total_cost, days>>,
              total_requests |-> total_requests,
              avg_cost_per_request |-> <<total_cost, total_requests>>,
              model_breakdown |-> ModelCosts(<<>>, recent_costs),
              daily_costs |-> LastItems(ledger.daily, days),
              budget_status |-> get_budget_status(budget, ledger, now),
              current_test_cost |-> ledger.current]

InitLedger ==
    /\ pc = "call"
    /\ call = NoCall
    /\ IdleRun
    /\ FreshTracker
    /\ NoDirect

\* Mutant: pricing a request also counts it into the current test cost.
CalculateRequestCostCounting ==
    /\ pc = "call"
    /\ Cardinality(held) < MaxHeld
    /\ \E args \in PriceArgs :
          LET cost == calculate_request_cost(args[1], args[2], args[3], today)
          IN  /\ held' = held \cup {cost}
              /\ call' = [op |-> "calculate_request_cost", ret |-> cost]
              /\ current_test_cost' = current_test_cost + cost.total_cost
    /\ before' = Ledger
    /\ UNCHANGED <<pc, runVars, costs_history, daily_costs, budget_config, today,
                   threads, sink>>

\* cost = tracker.calculate_request_cost(model, input_tokens, output_tokens):
\* the caller keeps the TestCost returned.  before is the tracker as the call
\* found it.
CalculateRequestCost ==
    /\ pc = "call"
    /\ Cardinality(held) < MaxHeld
    /\ \E args \in PriceArgs :
          LET cost == calculate_request_cost(args[1], args[2], args[3], today)
          IN  /\ held' = held \cup {cost}
              /\ call' = [op |-> "calculate_request_cost", ret |-> cost]
    /\ before' = Ledger
    /\ UNCHANGED <<pc, runVars, ledgerVars, budget_config, today, threads, sink>>

\* tracker.record_test_cost(test_cost, test_id) with a TestCost the caller
\* holds; the call returns None after logging the warnings.  now is the day
\* datetime.now() falls in during the call.
RecordTestCost ==
    /\ pc = "call"
    /\ Len(costs_history) < MaxHistory
    /\ \E test_cost \in held :
          LET ledger == record_test_cost(Ledger, test_cost, TestName, today)
          IN  /\ costs_history' = ledger.history
              /\ daily_costs' = ledger.daily
              /\ current_test_cost' = ledger.current
              /\ held' = held \ {test_cost}
              /\ call' = [op |-> "record_test_cost", test_cost |-> test_cost,
                          test_id |-> TestName, now |-> today, raised |-> FALSE,
                          warnings |-> check_budget_warnings(budget_config, ledger, today)]
    /\ before' = Ledger
    /\ UNCHANGED <<pc, runVars, budget_config, today, threads, sink>>

\* tracker.start_test()
StartTest ==
    /\ pc = "call"
    /\ current_test_cost # 0
    /\ current_test_cost' = start_test(Ledger).current
    /\ call' = [op |-> "start_test"]
    /\ before' = Ledger
    /\ UNCHANGED <<pc, runVars, costs_history, daily_costs, budget_config, today,
                   directVars>>

\* tracker.get_cost_summary(days)
GetCostSummary ==
    /\ pc = "call"
    /\ \E days \in WindowDays :
          call' = [op |-> "get_cost_summary", days |-> days, now |-> today,
                   ret |-> get_cost_summary(budget_config, Ledger, days, today)]
    /\ before' = Ledger
    /\ UNCHANGED <<pc, runVars, ledgerVars, budget_config, today, directVars>>

\* Midnight passes: datetime.now() falls in the next day.
DayPasses ==
    /\ pc = "call"
    /\ today < MaxDays
    /\ today' = today + 1
    /\ UNCHANGED <<pc, runVars, ledgerVars, budget_config, before, call, directVars>>

NextLedger ==
    \/ CalculateRequestCost
    \/ RecordTestCost
    \/ StartTest
    \/ GetCostSummary
    \/ DayPasses

SpecLedger == InitLedger /\ [][NextLedger]_vars

---------------------------------------------------------------------------
(* Threads that call record_test_cost of one CostTracker at the same time.  *)
(* CostTracker has no lock.  list.append is one step; the statements        *)
(* self.current_test_cost += ... and self.daily_costs[today] = ...get() + ...*)
(* read the total and write it back in two steps, and another thread may    *)
(* run between them.                                                        *)

MaxThreads == 2         \* the threads are 1..MaxThreads

Thread(position, test_cost) ==
    [pc |-> position, test_cost |-> test_cost, loaded |-> 0]

InitLedgerThreads ==
    /\ pc = "threads"
    /\ call = [op |-> "record_test_cost"]
    /\ IdleRun
    /\ FreshTracker
    /\ held = {}
    /\ sink = NoSink
    /\ \E args \in [1..MaxThreads -> PriceArgs] :
          threads = [t \in 1..MaxThreads |->
                        Thread("append", calculate_request_cost(args[t][1], args[t][2],
                                                                args[t][3], today))]

At(t, position) == pc = "threads" /\ t \in DOMAIN threads /\ threads[t].pc = position

\* Lines 174-175: test_cost.test_id = test_id; self.costs_history.append(test_cost)
AppendCost(t) ==
    /\ At(t, "append")
    /\ costs_history' = Append(costs_history,
                               [threads[t].test_cost EXCEPT !.test_id = TestName])
    /\ threads' = [threads EXCEPT ![t].pc = "load_current"]
    /\ UNCHANGED <<pc, runVars, daily_costs, current_test_cost, budget_config, today,
                   before, call, held, sink>>

\* Line 176, the read of self.current_test_cost
LoadCurrent(t) ==
    /\ At(t, "load_current")
    /\ threads' = [threads EXCEPT ![t].pc = "store_current",
                                  ![t].loaded = current_test_cost]
    /\ UNCHANGED <<pc, runVars, trackerVars, call, held, sink>>

\* Line 176, the write of self.current_test_cost
StoreCurrent(t) ==
    /\ At(t, "store_current")
    /\ current_test_cost' = threads[t].loaded + threads[t].test_cost.total_cost
    /\ threads' = [threads EXCEPT ![t].pc = "load_daily"]
    /\ UNCHANGED <<pc, runVars, costs_history, daily_costs, budget_config, today,
                   before, call, held, sink>>

\* Lines 179-180, self.daily_costs.get(today, 0)
LoadDaily(t) ==
    /\ At(t, "load_daily")
    /\ threads' = [threads EXCEPT ![t].pc = "store_daily",
                                  ![t].loaded = get_daily_cost(daily_costs, today)]
    /\ UNCHANGED <<pc, runVars, trackerVars, call, held, sink>>

\* Line 180, the write of self.daily_costs[today]; the warnings that follow
\* write nothing.
StoreDaily(t) ==
    /\ At(t, "store_daily")
    /\ daily_costs' = (today :> (threads[t].loaded + threads[t].test_cost.total_cost))
                          @@ daily_costs
    /\ threads' = [threads EXCEPT ![t].pc = "done"]
    /\ UNCHANGED <<pc, runVars, costs_history, current_test_cost, budget_config, today,
                   before, call, held, sink>>

NextLedgerThreads ==
    \/ \E t \in 1..MaxThreads : AppendCost(t)
    \/ \E t \in 1..MaxThreads : LoadCurrent(t)
    \/ \E t \in 1..MaxThreads : StoreCurrent(t)
    \/ \E t \in 1..MaxThreads : LoadDaily(t)
    \/ \E t \in 1..MaxThreads : StoreDaily(t)

SpecLedgerThreads == InitLedgerThreads /\ [][NextLedgerThreads]_vars

---------------------------------------------------------------------------
(* prometheus_metrics.py: PrometheusMetrics, and threads that call          *)
(* record_request of one object at the same time.  A counter maps the       *)
(* tuple of its label values to its value; inc and observe of               *)
(* prometheus_client are single steps.                                      *)

\* The keywords of _categorize_error that the lower-cased message contains.
ErrorKeywords(message) ==
    CASE message \in {"Rate limit exceeded: Mock rate limit for testing",
                      "Rate limit exceeded"} -> {"rate limit"}
      [] message = "Request timeout: Mock timeout error" -> {"timeout", "error"}
      [] message = "Request timeout" -> {"timeout"}
      [] message \in {"API error: Mock API error for testing", "OpenAI API error",
                      "Ollama API error"} -> {"api", "error"}
      [] message = "Network error: Mock network issue" -> {"error", "network"}
      [] message \in {"Unexpected error", "Error during Ollama inference",
                      "Error during Hugging Face inference"} -> {"error"}
      [] OTHER -> {}

\* PrometheusMetrics._categorize_error; "" is the empty message.
categorize_error(error_message) ==
    IF error_message \in {None, ""} THEN None
    ELSE LET has == ErrorKeywords(error_message)
         IN  IF "rate limit" \in has THEN "rate_limit"
             ELSE IF "timeout" \in has THEN "timeout"
             ELSE IF "api" \in has /\ ({"error", "invalid"} \cap has # {})
                  THEN "api_error"
             ELSE IF {"network", "connection"} \cap has # {} THEN "network_error"
             ELSE IF {"authentication", "unauthorized"} \cap has # {} THEN "auth_error"
             ELSE "unknown_error"

\* What _extract_prompt_type reads of a prompt: its length, whether it has a
\* question mark, and the keywords its lower-cased text contains.
PromptFacts(prompt) ==
    IF prompt = ShortPrompt
    THEN [len |-> 32, question |-> TRUE, keywords |-> {}]
    ELSE [len |-> 63, question |-> FALSE, keywords |-> {"write", "analysis"}]

\* PrometheusMetrics._extract_prompt_type; BadPrompt is None.
extract_prompt_type(prompt) ==
    IF prompt \in {BadPrompt, ""} THEN "unknown"
    ELSE LET facts == PromptFacts(prompt)
             has == facts.keywords
         IN  IF {"write", "essay", "explain", "describe", "analysis"} \cap has # {}
                  /\ facts.len > 200
             THEN "long_form"
             ELSE IF {"function", "code", "python", "javascript", "sql", "script",
                      "class"} \cap has # {}
             THEN "code_generation"
             ELSE IF facts.len < 100 /\ facts.question THEN "short_qa"
             ELSE IF facts.len > 200 THEN "long_form"
             ELSE IF {"write", "create", "implement"} \cap has # {}
             THEN "code_generation"
             ELSE "short_qa"

\* The arguments record_batch_results passes to record_request for a result.
RecordArgs(result) ==
    [model |-> Get(result, "model", "unknown"),
     prompt_type |-> extract_prompt_type(Get(result, "prompt", "")),
     latency |-> Get(result, "latency", 0),
     success |-> Get(result, "success", FALSE),
     error_type |-> categorize_error(Get(result, "error", None)),
     token_count |-> Get(result, "token_count", 0)]

\* counter.labels(...).inc(amount)
Inc(counter, labels, amount) ==
    (labels :> (Get(counter, labels, 0) + amount)) @@ counter

\* histogram.labels(...).observe(value): the count and the sum of the values
Observe(histogram, labels, value) ==
    LET seen == Get(histogram, labels, [count |-> 0, sum |-> 0])
    IN  (labels :> [count |-> seen.count + 1, sum |-> seen.sum + value]) @@ histogram

\* PrometheusMetrics.__init__: the lock (0 when no thread holds it, else the
\* thread that holds it) and the metrics.
Unlocked == 0

NewSink ==
    [lock |-> Unlocked,
     request_counter |-> <<>>,
     failure_counter |-> <<>>,
     latency_histogram |-> <<>>,
     token_counter |-> <<>>]

\* Results submitted to the metrics: successes of the mock and of the OpenAI
\* client, the second after a failed first attempt; failures of the mock
\* client; and the error_result of calls that raised, one with an exception
\* that has no message.
SinkSamples ==
    { Tag(generate_success_response("mock-model", ShortPrompt, 1, ReplyWords),
          1, ShortPrompt),
      Tag(OpenAIResult("gpt-4", << [ok |-> FALSE, error |-> openai_errors[1]],
                                   [ok |-> TRUE, usage |-> 4 + ReplyWords] >>, 2),
          1, LongPrompt),
      error_result(1, BadPrompt, "object of type 'NoneType' has no len()", "mock-model"),
      error_result(1, ShortPrompt, "", "mock-model") }
    \cup
    { Tag(generate_error_response("mock-model", 1, error_types[e]), 1, ShortPrompt) :
          e \in 1..4 }

Caller(position, result) ==
    [pc |-> position, result |-> result, args |-> RecordArgs(result)]

InitSink ==
    /\ pc = "threads"
    /\ call = [op |-> "record_request"]
    /\ IdleRun
    /\ FreshTracker
    /\ held = {}
    /\ sink = NewSink
    /\ \E rs \in [1..MaxThreads -> SinkSamples] :
          threads = [t \in 1..MaxThreads |-> Caller("acquire", rs[t])]

\* Mutant: the lock is taken whether or not another thread holds it.
LockIgnored(lock) == TRUE

\* Whether `with self._lock` can be entered.
LockFree(lock) == lock = Unlocked

\* Line 93: with self._lock
Acquire(t) ==
    /\ At(t, "acquire")
    /\ LockFree(sink.lock)
    /\ sink' = [sink EXCEPT !.lock = t]
    /\ threads' = [threads EXCEPT ![t].pc = "count"]
    /\ UNCHANGED <<pc, runVars, trackerVars, call, held>>

\* Lines 94-101: the request counter
CountRequest(t) ==
    /\ At(t, "count")
    /\ LET a == threads[t].args
           status == IF a.success THEN "success" ELSE "failure"
       IN  /\ sink' = [sink EXCEPT !.request_counter =
                           Inc(@, <<a.model, a.prompt_type, status>>, 1)]
           /\ threads' = [threads EXCEPT ![t].pc =
                              IF a.success THEN "observe"
                              ELSE IF a.error_type # None THEN "failure"
                              ELSE "release"]
    /\ UNCHANGED <<pc, runVars, trackerVars, call, held>>

\* Lines 104-108: the latency of a successful request
ObserveLatency(t) ==
    /\ At(t, "observe")
    /\ LET a == threads[t].args
       IN  /\ sink' = [sink EXCEPT !.latency_histogram =
                           Observe(@, <<a.model, a.prompt_type>>, a.latency)]
           /\ threads' = [threads EXCEPT ![t].pc =
                              IF a.token_count > 0 THEN "tokens" ELSE "release"]
    /\ UNCHANGED <<pc, runVars, trackerVars, call, held>>

\* Lines 111-115: the tokens of a successful request
CountTokens(t) ==
    /\ At(t, "tokens")
    /\ LET a == threads[t].args
       IN  sink' = [sink EXCEPT !.token_counter =
                       Inc(@, <<a.model, a.prompt_type>>, a.token_count)]
    /\ threads' = [threads EXCEPT ![t].pc = "release"]
    /\ UNCHANGED <<pc, runVars, trackerVars, call, held>>

\* Lines 118-123: the failure counter
CountFailure(t) ==
    /\ At(t, "failure")
    /\ LET a == threads[t].args
       IN  sink' = [sink EXCEPT !.failure_counter =
                       Inc(@, <<a.model, a.prompt_type, a.error_type>>, 1)]
    /\ threads' = [threads EXCEPT ![t].pc = "release"]
    /\ UNCHANGED <<pc, runVars, trackerVars, call, held>>

\* The end of the with block: the lock is released.
Release(t) ==
    /\ At(t, "release")
    /\ sink' = [sink EXCEPT !.lock = Unlocked]
    /\ threads' = [threads EXCEPT ![t].pc = "done"]
    /\ UNCHANGED <<pc, runVars, trackerVars, call, held>>

NextSink ==
    \/ \E t \in 1..MaxThreads : Acquire(t)
    \/ \E t \in 1..MaxThreads : CountRequest(t)
    \/ \E t \in 1..MaxThreads : ObserveLatency(t)
    \/ \E t \in 1..MaxThreads : CountTokens(t)
    \/ \E t \in 1..MaxThreads : CountFailure(t)
    \/ \E t \in 1..MaxThreads : Release(t)

SpecSink == InitSink /\ [][NextSink]_vars

---------------------------------------------------------------------------
(* benchmark.py, main: the run of one StressTestRunner, and after its return *)
(* the results handed to the PrometheusMetrics object, if there is one.      *)

\* PrometheusMetrics.record_request of one caller: the with block as a whole.
record_request(s, a) ==
    LET status == IF a.success THEN "success" ELSE "failure"
        counted == [s EXCEPT !.request_counter =
                        Inc(@, <<a.model, a.prompt_type, status>>, 1)]
        observed == IF a.success
                    THEN [counted EXCEPT !.latency_histogram =
                              Observe(@, <<a.model, a.prompt_type>>, a.latency)]
                    ELSE counted
        tokens == IF a.success /\ a.token_count > 0
                  THEN [observed EXCEPT !.token_counter =
                            Inc(@, <<a.model, a.prompt_type>>, a.token_count)]
                  ELSE observed
    IN  IF ~a.success /\ a.error_type # None
        THEN [tokens EXCEPT !.failure_counter =
                  Inc(@, <<a.model, a.prompt_type, a.error_type>>, 1)]
        ELSE tokens

\* PrometheusMetrics.record_batch_results: the for loop from result i on.
RECURSIVE record_batch_results(_, _, _)
record_batch_results(s, rs, i) ==
    IF i > Len(rs) THEN s
    ELSE record_batch_results(record_request(s, RecordArgs(rs[i])), rs, i + 1)

\* The config main builds from the command line: at most one custom prompt,
\* no max_cost; --no-save clears save_results.
BenchmarkConfigs ==
    [ num_requests : 1..MaxRequests,
      concurrent_requests : 1..MaxConcurrency,
      custom_prompts : {<<>>, <<LongPrompt>>},
      max_cost : {NoMaxCost},
      save_results : BOOLEAN ]

\* Lines 151-176: the client, the config, the metrics object when --metrics
\* is given, and a runner that constructs its own CostTracker.
InitBenchmark ==
    /\ pc = "idle"
    /\ config \in BenchmarkConfigs
    /\ client \in Clients
    /\ prompts = <<>> /\ futures = <<>> /\ results = <<>>
    /\ report = NoReport
    /\ failure = None
    /\ reordered = FALSE
    /\ call = NoCall
    /\ FreshTracker
    /\ held = {}
    /\ threads = <<>>
    /\ sink \in {NoSink, NewSink}

\* Mutant: the metrics object is never handed the results.
RecordNothing(s, rs, i) == s

\* What main does with the returned results (lines 180-181).
SubmitResults(s, rs, i) == record_batch_results(s, rs, i)

\* Lines 180-181: if metrics: metrics.record_batch_results(...)
RecordBatchResults ==
    /\ pc = "done"
    /\ sink # NoSink
    /\ sink' = SubmitResults(sink, report.individual_results, 1)
    /\ pc' = "recorded"
    /\ UNCHANGED <<runVars, trackerVars, call, held, threads>>

NextBenchmark ==
    \/ Next
    \/ RecordBatchResults

SpecBenchmark == InitBenchmark /\ [][NextBenchmark]_vars

---------------------------------------------------------------------------
(* Direct calls of client.run_prompt(prompt).  The OpenAI client is followed *)
(* attempt by attempt; the clock counts the seconds since start_time.        *)

MaxCallRetries == 2     \* max_retries of the called OpenAI client: 0..MaxCallRetries
MaxReplyWords == 6      \* the reply of a local model has 1..MaxReplyWords words

\* The clients whose run_prompt is called.
CalledClients ==
    { c \in Clients : c.kind # "openai" }
    \cup
    { [kind |-> "openai", model |-> "gpt-4", model_name |-> "gpt-4",
       max_retries |-> r] : r \in 0..MaxCallRetries }

\* OllamaClient.run_prompt for a reply of the given number of words:
\* eval_count and prompt_eval_count are each reported by the API, or 0 and
\* then estimated from the words (lines 187-196).
OllamaReply(model_name, prompt, words) ==
    IF prompt = BadPrompt
    THEN { Returned(create_error_response(model_name, ollama_errors[4], l)) :
               l \in Latencies }
    ELSE { Returned(LocalSuccess(model_name, l,
               IF prompt_reported THEN 10 * WordCount(prompt)
                                  ELSE 13 * WordCount(prompt),
               IF eval_reported THEN 10 * words ELSE 13 * words)) :
               l \in Latencies, prompt_reported \in BOOLEAN,
               eval_reported \in BOOLEAN }
         \cup
         { Returned(create_error_response(model_name, ollama_errors[e], l)) :
               l \in Latencies, e \in 1..MaxErrorTypes }

\* HuggingFaceClient.run_prompt for a reply of the given number of words:
\* both counts come from the tokenizer, or both from the fallback
\* (lines 176-186).
HuggingFaceReply(model_name, prompt, words) ==
    IF prompt = BadPrompt
    THEN { Returned(create_error_response(model_name,
               "Error during Hugging Face inference", l)) : l \in Latencies }
    ELSE { Returned(LocalSuccess(model_name, l,
               IF counted THEN 10 * WordCount(prompt) ELSE 13 * WordCount(prompt),
               IF counted THEN 10 * words ELSE 13 * words)) :
               l \in Latencies, counted \in BOOLEAN }
         \cup
         { Returned(create_error_response(model_name,
               "Error during Hugging Face inference", l)) : l \in Latencies }

\* time.sleep in the except clauses of OpenAIClient.run_prompt after the
\* 0-based attempt: 2 ** attempt after a rate limit, else 1 second, and
\* none after the last attempt.
Backoff(outcome, attempt, max_retries) ==
    IF outcome.ok \/ attempt >= max_retries THEN 0
    ELSE IF outcome.error = openai_errors[1] THEN 2 ^ attempt
    ELSE 1

InitClient ==
    /\ pc = "call"
    /\ client \in CalledClients
    /\ \E prompt \in Prompts \cup {BadPrompt}, words \in 1..MaxReplyWords :
          call = [op |-> "run_prompt", prompt |-> prompt, reply_words |-> words,
                  attempts |-> <<>>, durations |-> <<>>, clock |-> 0, ret |-> <<>>]
    /\ config = IdleConfig
    /\ prompts = <<>> /\ futures = <<>> /\ results = <<>>
    /\ report = NoReport
    /\ failure = None
    /\ reordered = FALSE
    /\ FreshTracker
    /\ NoDirect

\* Mutant: the loop goes on after a successful attempt.
RetryAlways(attempts, max_retries) == Len(attempts) < max_retries + 1

\* Whether the for loop of lines 73-127 makes one more attempt: the range
\* is not exhausted and no attempt has reached the break of line 93.
MoreAttempts(attempts, max_retries) ==
    /\ Len(attempts) < max_retries + 1
    /\ IF attempts = <<>> THEN TRUE ELSE ~attempts[Len(attempts)].ok

\* One pass of the for loop: the request answers or raises after some
\* seconds, and the except clause sleeps before the next attempt.
OpenAIAttempt ==
    /\ pc = "call"
    /\ call.op = "run_prompt"
    /\ client.kind = "openai"
    /\ MoreAttempts(call.attempts, client.max_retries)
    /\ \E o \in (IF call.prompt = BadPrompt
                  THEN {[ok |-> FALSE, error |-> openai_errors[4]]}
                  ELSE AttemptOutcomes(call.prompt)),
          d \in Latencies :
          call' = [call EXCEPT
                      !.attempts = Append(@, o),
                      !.durations = Append(@, d),
                      !.clock = @ + d + Backoff(o, Len(call.attempts),
                                                client.max_retries)]
    /\ UNCHANGED <<pc, runVars, trackerVars, directVars>>

\* Lines 129-134: the loop is over and the result is returned.
OpenAIReturn ==
    /\ pc = "call"
    /\ call.op = "run_prompt"
    /\ client.kind = "openai"
    /\ ~MoreAttempts(call.attempts, client.max_retries)
    /\ call' = [call EXCEPT !.ret =
                    Returned(OpenAIResult(client.model, call.attempts, call.clock))]
    /\ pc' = "returned"
    /\ UNCHANGED <<runVars, trackerVars, directVars>>

\* run_prompt of the mock client and of the two local clients.
LocalRunPrompt ==
    /\ pc = "call"
    /\ call.op = "run_prompt"
    /\ client.kind # "openai"
    /\ \E o \in (CASE client.kind = "mock" ->
                         MockRunPrompt(client.model, call.prompt)
                    [] client.kind = "ollama" ->
                         OllamaReply(client.model_name, call.prompt,
                                     call.reply_words)
                    [] client.kind = "huggingface" ->
                         HuggingFaceReply(client.model_name, call.prompt,
                                          call.reply_words)) :
          call' = [call EXCEPT !.ret = o]
    /\ pc' = "returned"
    /\ UNCHANGED <<runVars, trackerVars, directVars>>

NextClient ==
    \/ OpenAIAttempt
    \/ OpenAIReturn
    \/ LocalRunPrompt

SpecClient == InitClient /\ [][NextClient]_vars

\* The caller's thread runs until run_prompt has returned or raised.
FairSpecClient == SpecClient /\ WF_vars(NextClient)

---------------------------------------------------------------------------
(* Properties of the run *)

Returned_ == pc = "done"
BudgetErrors == { "Budget exceeded: " \o reason :
                      reason \in {"exceeds test limit", "would exceed daily limit"} }
Outcomes == report.individual_results
Pooled == config.concurrent_requests > 1
SomeSucceeded == \E i \in DOMAIN Outcomes : Outcomes[i]["success"]
SomeFailed == \E i \in DOMAIN Outcomes : ~Outcomes[i]["success"]

\* C1: a returned report of a run of n requests holds exactly n outcomes
\* whose request ids are exactly 1..n, none twice and none missing, in both
\* dispatch modes and whatever the calls did and in whatever order they ended.
C1_RequestIdsExactlyOneToN ==
    Returned_ =>
        /\ Len(Outcomes) = config.num_requests
        /\ {Outcomes[i]["request_id"] : i \in DOMAIN Outcomes} = 1..config.num_requests
        /\ \A i, j \in DOMAIN Outcomes :
              Outcomes[i]["request_id"] = Outcomes[j]["request_id"] => i = j

\* A pooled run of three requests returned, one call failed, one succeeded,
\* and the calls had not ended in the order of their ids.
C1_Witness ==
    /\ Returned_ /\ Pooled /\ reordered
    /\ config.num_requests = 3
    /\ SomeSucceeded /\ SomeFailed

\* C2: in pooled dispatch the outcomes aggregated and stored in the report
\* are in ascending order of request id for every completion order, and the
\* outcome at position i is the one of the i-th prompt: the sequence depends
\* on the prompts and on what the calls returned, not on the completion order.
C2_SortedByRequestId ==
    (Returned_ /\ Pooled) =>
        /\ \A i, j \in DOMAIN Outcomes :
              i < j => Outcomes[i]["request_id"] < Outcomes[j]["request_id"]
        /\ \A i \in DOMAIN Outcomes : Outcomes[i]["prompt"] = prompts[Outcomes[i]["request_id"]]
        /\ results = Outcomes

\* A pooled run returned whose calls ended out of order, over two different prompts.
C2_Witness ==
    /\ Returned_ /\ Pooled /\ reordered
    /\ \E i, j \in DOMAIN Outcomes : Outcomes[i]["prompt"] # Outcomes[j]["prompt"]

\* C3 (as claimed): once run_stress_test is past the budget check it ends by
\* returning a report, with total = num_requests and failed >= 1 if some call
\* failed; no failing call, returned or raised, ends the run without a report.
C3_FailureIsolation ==
    /\ pc = "aborted" => failure \in BudgetErrors
    /\ (Returned_ /\ SomeFailed) =>
          /\ report.total_requests = config.num_requests
          /\ report.failed_requests >= 1
          /\ Len(Outcomes) = config.num_requests

\* C4: when can_afford_test rejects the run and max_cost is None, the run
\* ends with the budget error, no prompt has been generated, no call has been
\* dispatched, and history, daily totals and current test cost are what they
\* were when run_stress_test was called.
C4_BudgetErrorBeforeDispatch ==
    LET check == can_afford_test(budget_config, before.daily, ModelName(client),
                     config.num_requests, AvgInputTokens, AvgOutputTokens, today)
    IN  (pc # "idle" /\ ~check[1] /\ config.max_cost = NoMaxCost) =>
            /\ pc = "aborted"
            /\ failure = "Budget exceeded: " \o check[2]
            /\ prompts = <<>> /\ futures = <<>> /\ results = <<>>
            /\ report = NoReport
            /\ Ledger = before

\* A run was refused for the daily limit on a tracker that an earlier run
\* had used (its current test cost is not zero).
C4_Witness ==
    /\ pc = "aborted"
    /\ failure = "Budget exceeded: would exceed daily limit"
    /\ before.current > 0

\* A run of LargeRun requests was refused for the test limit.
C4_WitnessTestLimit ==
    /\ pc = "aborted"
    /\ failure = "Budget exceeded: exceeds test limit"
    /\ config.num_requests = LargeRun

\* C5: can_afford_test answers by the estimate n * (avg_in * input rate +
\* avg_out * output rate): refused for the test limit whenever the estimate
\* is above it, whatever the total of today; refused for the daily limit when
\* it is within the test limit and total of today + estimate is above the
\* daily limit; affordable otherwise, also when it equals a limit.
C5_CanAfford ==
    (pc = "returned" /\ call.op = "can_afford_test") =>
        LET rates == IF call.model \in DOMAIN MODEL_PRICING
                     THEN MODEL_PRICING[call.model]
                     ELSE MODEL_PRICING["gpt-3.5-turbo"]
            estimate == call.num_requests
                          * (call.avg_tokens[1] * rates.input
                             + call.avg_tokens[2] * rates.output)
            today_total == IF today \in DOMAIN daily_costs THEN daily_costs[today] ELSE 0
        IN  /\ estimate > budget_config.test_limit =>
                  call.ret = <<FALSE, "exceeds test limit">>
            /\ (estimate <= budget_config.test_limit
                  /\ today_total + estimate > budget_config.daily_limit) =>
                  call.ret = <<FALSE, "would exceed daily limit">>
            /\ (estimate <= budget_config.test_limit
                  /\ today_total + estimate <= budget_config.daily_limit) =>
                  call.ret[1] = TRUE

\* can_afford_test accepted an estimate equal to the test limit that brings
\* the total of today to exactly the daily limit.
C5_Witness ==
    /\ pc = "returned" /\ call.op = "can_afford_test"
    /\ call.ret[1] = TRUE
    /\ estimate_test_cost(call.model, call.num_requests, call.avg_tokens[1],
                          call.avg_tokens[2], today) = budget_config.test_limit
    /\ get_daily_cost(daily_costs, today) + budget_config.test_limit
          = budget_config.daily_limit

\* C6 (as claimed): with a max_cost the run never ends with a budget error;
\* it dispatches all num_requests requests and returns a report.
C6_OverrideRunsToReport ==
    (config.max_cost # NoMaxCost /\ pc \in {"done", "aborted"}) =>
        /\ pc = "done"
        /\ Len(Outcomes) = config.num_requests

\* The part of C6 about the budget check alone: with a max_cost no run ends
\* with a budget error.
OverrideNeverBudgetError ==
    (config.max_cost # NoMaxCost /\ pc = "aborted") => failure \notin BudgetErrors

\* The TestCost entries this run appended to costs_history.
Appended == SubSeq(costs_history, Len(before.history) + 1, Len(costs_history))
Successes == SelectSeq(Outcomes, IsSuccess)

\* C7 (as claimed): the entry recorded for a successful outcome carries that
\* outcome's own input_tokens and output_tokens.
C7_EntriesCarryOutcomeTokens ==
    Returned_ =>
        /\ Len(Appended) = Len(Successes)
        /\ \A i \in DOMAIN Successes :
              "input_tokens" \in DOMAIN Successes[i] =>
                  /\ Appended[i].input_tokens = Successes[i]["input_tokens"]
                  /\ Appended[i].output_tokens = Successes[i]["output_tokens"]

\* C8: when the run has returned, costs_history holds what it held before
\* followed by one entry per successful outcome and none for a failed one;
\* total_cost of the report is the sum of the total_cost of these entries and
\* avg_cost_per_request is total_cost / total_requests.
C8_OneEntryPerSuccess ==
    Returned_ =>
        /\ Len(costs_history) = Len(before.history)
              + Cardinality({i \in DOMAIN Outcomes : Outcomes[i]["success"]})
        /\ SubSeq(costs_history, 1, Len(before.history)) = before.history
        /\ \A i \in DOMAIN Appended : Appended[i].test_id = TestName
        /\ report.total_cost = Sum([i \in DOMAIN Appended |-> Appended[i].total_cost])
        /\ report.avg_cost_per_request[2] # 0
        /\ report.avg_cost_per_request[1] * report.total_requests
              = report.total_cost * report.avg_cost_per_request[2]
        /\ report.total_requests = config.num_requests

\* A run on a tracker with earlier history returned with two succeeded
\* requests and a failed one, at a cost that is not zero.
C8_Witness ==
    /\ Returned_ /\ SomeFailed
    /\ Len(Successes) = 2
    /\ before.history # <<>>
    /\ report.total_cost # 0

---------------------------------------------------------------------------
(* Properties of the report *)

HasReport == report.returned
Successful == {i \in DOMAIN results : results[i]["success"]}
LatencyOf(i) == results[i]["latency"]

\* a/b <= c/d for fractions <<a, b>>, <<c, d>> with b, d > 0
LeQ(x, y) == x[1] * y[2] <= y[1] * x[2]
Whole(n) == <<n, 1>>

\* C9: in every report successful + failed = total, and success_rate is
\* successful / total (0 when total is 0), successful being the number of the
\* results with success = true.
C9_CountsAndSuccessRate ==
    HasReport =>
        /\ report.total_requests = Len(results)
        /\ report.successful_requests = Cardinality(Successful)
        /\ report.successful_requests + report.failed_requests = report.total_requests
        /\ report.success_rate[2] > 0
        /\ IF report.total_requests = 0
           THEN report.success_rate[1] = 0
           ELSE report.success_rate[1] * report.total_requests
                   = report.successful_requests * report.success_rate[2]

\* A report over a failed result and a result that succeeded on a retry
\* and still carries the error message of the first attempt.
C9_Witness ==
    /\ HasReport /\ call.op = "_calculate_metrics"
    /\ report.failed_requests > 0
    /\ \E i \in Successful : results[i]["error"] # None

\* C10: with a successful result, min <= median <= p95 <= max and
\* min <= mean <= max, min and max being the least and greatest latency of the
\* successful results and mean their average, so that the latency of a failed
\* result has no part in them; without a successful result all five are 0.
C10_LatencyStatistics ==
    HasReport =>
        IF Successful # {}
        THEN /\ \A i \in Successful : report.min_latency <= LatencyOf(i)
             /\ \E i \in Successful : report.min_latency = LatencyOf(i)
             /\ \A i \in Successful : report.max_latency >= LatencyOf(i)
             /\ \E i \in Successful : report.max_latency = LatencyOf(i)
             /\ LeQ(Whole(report.min_latency), report.median_latency)
             /\ LeQ(report.median_latency, report.p95_latency)
             /\ LeQ(report.p95_latency, Whole(report.max_latency))
             /\ LeQ(Whole(report.min_latency), report.avg_latency)
             /\ LeQ(report.avg_latency, Whole(report.max_latency))
             /\ report.avg_latency[2] = Cardinality(Successful)
             /\ report.avg_latency[1]
                   = Sum([i \in DOMAIN results |->
                             IF i \in Successful THEN LatencyOf(i) ELSE 0])
        ELSE /\ report.min_latency = 0 /\ report.max_latency = 0
             /\ report.avg_latency[1] = 0 /\ report.median_latency[1] = 0
             /\ report.p95_latency[1] = 0

\* A report over successful results of different latencies, the slower one
\* first, and a failed result whose latency is below theirs.
C10_Witness ==
    /\ HasReport /\ call.op = "_calculate_metrics"
    /\ \E i, j \in Successful : i < j /\ LatencyOf(i) > LatencyOf(j)
    /\ \E k \in DOMAIN results \ Successful :
          \A i \in Successful : LatencyOf(k) < LatencyOf(i)

\* All results failed: the five statistics are 0.
C10_WitnessNoSuccess ==
    /\ HasReport /\ results # <<>> /\ Successful = {}

---------------------------------------------------------------------------
(* Properties of _calculate_percentile *)

PercentileReturned == pc = "returned" /\ call.op = "_calculate_percentile"

\* The number at 0-based position j of the numbers of data in ascending
\* order: at most j of them are smaller and more than j are not larger.
Rank(data, j) ==
    CHOOSE v \in {data[i] : i \in DOMAIN data} :
        /\ Cardinality({i \in DOMAIN data : data[i] < v}) <= j
        /\ Cardinality({i \in DOMAIN data : data[i] <= v}) > j

\* C11: _calculate_percentile returns 0 for the empty list; otherwise, with
\* index = (p / 100) * (n - 1) over the numbers in ascending order, the number
\* at index when index is whole and else sorted[floor] * (1 - w)
\* + sorted[floor + 1] * w, w being the fractional part of index; floor + 1 is
\* then a position of the list; the result lies between the least and the
\* greatest number; the list of the caller is as it was; [1, 2, 3, 4, 5] at
\* p = 95 gives 4.8 and [10] gives 10.
C11_Percentile ==
    PercentileReturned =>
        LET data == call.data
            n == Len(data)
            index100 == call.percentile * (n - 1)
            floor == index100 \div 100
            w100 == index100 % 100
            ret == call.ret
        IN  /\ ret[2] > 0
            /\ call.list_after = data
            /\ n = 0 => ret[1] = 0
            /\ (n > 0 /\ w100 = 0) => ret[1] = Rank(data, floor) * ret[2]
            /\ (n > 0 /\ w100 # 0) =>
                  /\ floor + 1 <= n - 1
                  /\ ret[1] * 100 = (Rank(data, floor) * (100 - w100)
                                       + Rank(data, floor + 1) * w100) * ret[2]
            /\ n > 0 =>
                  /\ Rank(data, 0) * ret[2] <= ret[1]
                  /\ ret[1] <= Rank(data, n - 1) * ret[2]
            /\ (data = <<1, 2, 3, 4, 5>> /\ call.percentile = 95) =>
                  ret[1] * 10 = 48 * ret[2]
            /\ data = <<10>> => ret[1] = 10 * ret[2]

\* The 95th percentile of an unsorted list of five different numbers was
\* taken: it lies strictly between the two greatest.
C11_Witness ==
    /\ PercentileReturned
    /\ call.data = <<5, 3, 1, 4, 2>> /\ call.percentile = 95
    /\ call.ret[1] * 10 = 48 * call.ret[2]

\* The 95th percentile of [10] was taken.
C11_WitnessSingle ==
    /\ PercentileReturned
    /\ call.data = <<10>> /\ call.percentile = 95
    /\ call.ret = <<10, 1>>

---------------------------------------------------------------------------
(* Properties of the CostTracker *)

Priced == call.op = "calculate_request_cost"
Recorded == call.op = "record_test_cost"
Summarised == call.op = "get_cost_summary"

\* The TestCost values priced so far that are still known: those the caller
\* holds and those in the history.
KnownCosts == held \cup {costs_history[i] : i \in DOMAIN costs_history}

SameRequest(a, b) ==
    /\ a.model = b.model
    /\ a.input_tokens = b.input_tokens
    /\ a.output_tokens = b.output_tokens

\* C12: calculate_request_cost returns the same input_cost, output_cost and
\* total_cost as every earlier call with the same model, input_tokens and
\* output_tokens, whatever calls of the tracker lay between, and it leaves
\* costs_history, daily_costs and current_test_cost as it found them.
C12_PricingIsPure ==
    Priced =>
        /\ Ledger = before
        /\ \A earlier \in KnownCosts :
              SameRequest(earlier, call.ret) =>
                  /\ earlier.input_cost = call.ret.input_cost
                  /\ earlier.output_cost = call.ret.output_cost
                  /\ earlier.total_cost = call.ret.total_cost

\* A request is priced again on a later day, after the first pricing of it
\* was recorded and while the current test cost is not zero.
C12_Witness ==
    /\ Priced
    /\ current_test_cost > 0
    /\ \E i \in DOMAIN costs_history :
          /\ SameRequest(costs_history[i], call.ret)
          /\ costs_history[i].timestamp < call.ret.timestamp
          /\ call.ret.total_cost > 0

\* C13: the TestCost of calculate_request_cost(model, in, out) has total_cost
\* = (in / 1000) * input rate + (out / 1000) * output rate, with the rates
\* MODEL_PRICING has for the model and, for a model it does not name, those
\* of gpt-3.5-turbo; 100 + 50 tokens of gpt-3.5-turbo cost $0.00025.
C13_PriceFormula ==
    Priced =>
        LET cost == call.ret
            rates == IF cost.model \in DOMAIN MODEL_PRICING
                     THEN MODEL_PRICING[cost.model]
                     ELSE MODEL_PRICING["gpt-3.5-turbo"]
        IN  /\ cost.input_cost = cost.input_tokens * rates.input
            /\ cost.output_cost = cost.output_tokens * rates.output
            /\ cost.total_cost = cost.input_tokens * rates.input
                                   + cost.output_tokens * rates.output
            /\ (cost.input_tokens = 100 /\ cost.output_tokens = 50
                  /\ cost.model \in {"gpt-3.5-turbo", "llama2:7b"}) =>
                  cost.total_cost * 100000 = 25 * UnitsPerDollar

\* A request to a model that MODEL_PRICING does not name was priced.
C13_Witness ==
    /\ Priced
    /\ call.ret.model \notin DOMAIN MODEL_PRICING
    /\ call.ret.total_cost = 5000

\* What record_test_cost does to the daily total of `day`, and to nothing else.
RecordedUnder(day) ==
    /\ costs_history = Append(before.history,
                              [call.test_cost EXCEPT !.test_id = call.test_id])
    /\ current_test_cost = before.current + call.test_cost.total_cost
    /\ day \in DOMAIN daily_costs
    /\ daily_costs[day] = get_daily_cost(before.daily, day) + call.test_cost.total_cost
    /\ \A d \in (DOMAIN daily_costs \cup DOMAIN before.daily) \ {day} :
          /\ d \in DOMAIN daily_costs /\ d \in DOMAIN before.daily
          /\ daily_costs[d] = before.daily[d]
    /\ ~call.raised

\* C14 (as claimed): record_test_cost appends the entry as the last element
\* of costs_history, adds its total_cost to the daily total of the day of the
\* entry's own timestamp and to the current test cost, changes the total of
\* no other day and raises nothing, whatever warnings it logs.
C14_RecordKeyedByEntryDay ==
    Recorded => RecordedUnder(call.test_cost.timestamp)

\* What holds of record_test_cost instead: the total it adds to is the one of
\* the day of the call, and no warning and no limit makes it raise, also
\* with auto_stop set.
RecordKeyedByDayOfCall ==
    Recorded => RecordedUnder(call.now)

\* A cost priced on one day was recorded on a later one.
RecordedOnLaterDay ==
    /\ Recorded
    /\ call.test_cost.timestamp < call.now

\* A cost was recorded that brought both totals above their limits, on a
\* tracker with auto_stop set.
RecordedAboveLimits ==
    /\ Recorded
    /\ budget_config.auto_stop
    /\ call.warnings = {"Daily budget warning", "Test budget warning"}
    /\ current_test_cost > budget_config.test_limit
    /\ get_daily_cost(daily_costs, call.now) > budget_config.daily_limit

\* The entries of the history whose timestamp lies in the `days` days before
\* the call of get_cost_summary.
InWindow == {i \in DOMAIN costs_history :
                costs_history[i].timestamp >= call.now - call.days}

RECURSIVE SumOver(_, _)
SumOver(f, keys) ==
    IF keys = {} THEN 0
    ELSE LET k == CHOOSE x \in keys : TRUE IN f[k] + SumOver(f, keys \ {k})

\* The totals of a summary: total_cost is the sum over exactly the entries
\* in the window, and the costs and request counts per model add up to it
\* and to the number of these entries.
SummaryTotals ==
    Summarised =>
        LET summary == call.ret
            breakdown == summary.model_breakdown
        IN  /\ summary.total_cost
                  = SumOver([i \in InWindow |-> costs_history[i].total_cost], InWindow)
            /\ summary.total_requests = Cardinality(InWindow)
            /\ DOMAIN breakdown = {costs_history[i].model : i \in InWindow}
            /\ SumOver([m \in DOMAIN breakdown |-> breakdown[m].cost], DOMAIN breakdown)
                  = summary.total_cost
            /\ SumOver([m \in DOMAIN breakdown |-> breakdown[m].requests],
                       DOMAIN breakdown)
                  = summary.total_requests

\* C15 (as claimed): besides these totals, the daily series of a summary
\* holds only days inside the window.
C15_SummaryWithinWindow ==
    /\ SummaryTotals
    /\ Summarised =>
          \A day \in DOMAIN call.ret.daily_costs : day >= call.now - call.days

\* A summary over a window that takes in one entry of the history and leaves
\* out another.
SummaryLeavesOutOldEntry ==
    /\ Summarised
    /\ InWindow # {} /\ InWindow # DOMAIN costs_history
    /\ Cardinality(DOMAIN call.ret.model_breakdown) = 1

\* Every thread has returned from its call of record_test_cost.
AllRecorded ==
    /\ pc = "threads" /\ call.op = "record_test_cost"
    /\ \A t \in DOMAIN threads : threads[t].pc = "done"

ThreadsTotal == SumOver([t \in DOMAIN threads |-> threads[t].test_cost.total_cost],
                        DOMAIN threads)

\* The appends of concurrent calls are all kept.
EveryCostAppended ==
    AllRecorded => Len(costs_history) = Len(before.history) + Len(threads)

\* C16 (as claimed): after k concurrent calls of record_test_cost, in any
\* interleaving, costs_history holds k more entries and current_test_cost
\* and the total of today have each grown by the sum of the k total_cost.
C16_NoLostRecord ==
    AllRecorded =>
        /\ Len(costs_history) = Len(before.history) + Len(threads)
        /\ current_test_cost = before.current + ThreadsTotal
        /\ get_daily_cost(daily_costs, today)
              = get_daily_cost(before.daily, today) + ThreadsTotal

---------------------------------------------------------------------------
(* Properties of PrometheusMetrics *)

Recording == pc = "threads" /\ call.op = "record_request"
AllSubmitted == Recording /\ \A t \in DOMAIN threads : threads[t].pc = "done"

\* The threads that have begun the increments of their call and not ended them.
Incrementing ==
    {t \in DOMAIN threads :
        threads[t].pc \in {"count", "observe", "tokens", "failure", "release"}}

\* The threads whose call has incremented the request counter.
Counted ==
    {t \in DOMAIN threads :
        threads[t].pc \in {"observe", "tokens", "failure", "release", "done"}}

\* The sum of a counter over all its label values.
Total(counter) == SumOver(counter, DOMAIN counter)

\* C17: with k threads calling record_request of one PrometheusMetrics
\* object, in any interleaving, no increment is lost: the request counter
\* summed over its labels is the number of calls that have counted, and k
\* when all have returned; and never are two calls both between the first
\* and the last of their increments.
C17_NoLostMetric ==
    Recording =>
        /\ Cardinality(Incrementing) <= 1
        /\ Total(sink.request_counter) = Cardinality(Counted)
        /\ AllSubmitted => Total(sink.request_counter) = Len(threads)

\* Two threads have recorded results with the same labels: their counter is 2.
C17_Witness ==
    /\ AllSubmitted
    /\ \E labels \in DOMAIN sink.request_counter : sink.request_counter[labels] >= 2
    /\ \E t, u \in DOMAIN threads : t # u /\ threads[t].result # threads[u].result

\* A thread waits for the lock while another is between its increments.
SinkContended ==
    /\ Recording
    /\ \E t, u \in DOMAIN threads :
          /\ threads[t].pc = "acquire"
          /\ threads[u].pc = "failure"

Failed == {t \in DOMAIN threads : ~threads[t].result["success"]}

\* C18 (as claimed): when all results are recorded, the failure counter
\* summed over its labels is the number of the failed results, which is the
\* request counter summed over the labels with status failure.
C18_EveryFailureCounted ==
    AllSubmitted =>
        /\ Total(sink.failure_counter) = Cardinality(Failed)
        /\ Total(sink.failure_counter)
              = SumOver(sink.request_counter,
                        {l \in DOMAIN sink.request_counter : l[3] = "failure"})

\* What holds of the failure counter instead: it counts the failed results
\* that carry a message, each under the one error type of its message, and
\* no successful result, whatever message it still carries.
FailuresWithMessageCounted ==
    AllSubmitted =>
        /\ Total(sink.failure_counter)
              = Cardinality({t \in Failed : threads[t].result["error"] \notin {None, ""}})
        /\ \A l \in DOMAIN sink.failure_counter :
              sink.failure_counter[l]
                 = Cardinality({t \in Failed :
                       /\ threads[t].result["error"] \notin {None, ""}
                       /\ l = <<threads[t].args.model, threads[t].args.prompt_type,
                                categorize_error(threads[t].result["error"])>>})

\* A failed result without a message and a successful one that still carries
\* the message of a failed attempt were recorded.
FailureWithoutMessageRecorded ==
    /\ AllSubmitted
    /\ \E t \in Failed : threads[t].result["error"] = ""
    /\ \E t \in DOMAIN threads \ Failed : threads[t].result["error"] # None

---------------------------------------------------------------------------
(* Properties of the report: errors and tokens *)

Unsuccessful == DOMAIN results \ Successful

\* C19: the errors of a report map each error message of a failed result,
\* as it stands, to the number of failed results that carry exactly it; the
\* counts add up to failed_requests, and the message a successful result
\* carries is no key of it unless a failed result carries it too.
C19_ErrorHistogram ==
    HasReport =>
        /\ DOMAIN report.errors = {results[i]["error"] : i \in Unsuccessful}
        /\ \A message \in DOMAIN report.errors :
              report.errors[message]
                 = Cardinality({i \in Unsuccessful : results[i]["error"] = message})
        /\ SumOver(report.errors, DOMAIN report.errors) = report.failed_requests

\* A report over two failed results with the same message and a result that
\* succeeded on a retry and still carries another message.
C19_Witness ==
    /\ HasReport /\ call.op = "_calculate_metrics"
    /\ \E message \in DOMAIN report.errors : report.errors[message] = 2
    /\ \E i \in Successful :
          results[i]["error"] # None /\ results[i]["error"] \notin DOMAIN report.errors

\* The total tokens of an outcome: total_tokens where the client reports it,
\* else the token_count of the OpenAI client and of error_result.
OutcomeTotalTokens(r) ==
    IF "total_tokens" \in DOMAIN r THEN r["total_tokens"] ELSE r["token_count"]

\* C20 (as claimed): total_tokens of the report is the sum of the total
\* tokens of the successful outcomes, for every client.
C20_TotalTokens ==
    Returned_ =>
        report.total_tokens
           = Sum([i \in DOMAIN Successes |-> OutcomeTotalTokens(Successes[i])])

\* What holds instead: total_tokens is that sum for the OpenAI client, whose
\* results carry token_count, and 0 for the clients whose results carry
\* total_tokens.
TotalTokensOfTokenCount ==
    Returned_ =>
        report.total_tokens
           = IF client.kind = "openai"
             THEN Sum([i \in DOMAIN Successes |-> OutcomeTotalTokens(Successes[i])])
             ELSE 0

\* A run with the mock client returned with a successful outcome.
TokensOfMockRun ==
    /\ Returned_ /\ client.kind = "mock" /\ SomeSucceeded
    /\ report.total_tokens = 0

---------------------------------------------------------------------------
(* Properties of main and its metrics object *)

HasSink == sink # NoSink

SubmittedAfterReturn ==
    /\ pc # "recorded" => sink \in {NoSink, NewSink}
    /\ pc = "recorded" =>
           Total(sink.request_counter) = Len(report.individual_results)

\* The run has returned a report and the metrics object has counted nothing.
ReturnedBeforeSubmission ==
    /\ Returned_ /\ HasSink /\ config.num_requests = MaxRequests
    /\ Total(sink.request_counter) = 0

\* The run has returned and there is no metrics object at all.
ReturnedWithoutSink == Returned_ /\ ~HasSink

---------------------------------------------------------------------------
(* Properties of the end of the run *)

SaveFailed == pc = "aborted" /\ failure = SaveError

\* C22: a failure to write the report file never aborts the run: the run
\* does not end with the exception of _save_results in place of a report.
C22_PersistenceNeverAborts == ~SaveFailed

\* What holds instead: the exception leaves the run only when save_results
\* is set, no report is returned, and the tracker has by then recorded one
\* cost for every successful result.
SaveFailureAfterCosts ==
    SaveFailed =>
        /\ config.save_results
        /\ ~HasReport
        /\ Len(costs_history) = Len(before.history) + Cardinality(Successful)

\* Every request succeeded, the costs are recorded, and the run has raised.
SaveFailedAfterSuccesses ==
    /\ SaveFailed
    /\ Len(results) = MaxRequests
    /\ Cardinality(Successful) = MaxRequests

---------------------------------------------------------------------------
(* Properties of run_prompt *)

CallEnded == pc = "returned" /\ call.op = "run_prompt"
Outcome == call.ret.result
HasOutcome == CallEnded /\ ~call.ret.raised

\* C23: every outcome a client returns, after any failed and successful
\* attempts, has success = True with error None, or success = False with an
\* error that is not None.
C23_SuccessIffNoError ==
    HasOutcome =>
        \/ Outcome.success /\ Outcome.error = None
        \/ ~Outcome.success /\ Outcome.error # None

\* What holds instead: a failed outcome always has an error, and a
\* successful one has an error only when the OpenAI client succeeded after a
\* failed attempt, whose message it keeps.
ErrorOfEarlierAttempt ==
    HasOutcome =>
        /\ ~Outcome.success => Outcome.error # None
        /\ Outcome.success /\ Outcome.error # None =>
               /\ client.kind = "openai"
               /\ Len(call.attempts) > 1
               /\ Outcome.error = call.attempts[Len(call.attempts) - 1].error

\* The OpenAI client has succeeded at its last allowed attempt.
SucceededAfterRetries ==
    /\ HasOutcome /\ client.kind = "openai"
    /\ Len(call.attempts) = MaxCallRetries + 1
    /\ Outcome.success /\ Outcome.error # None

Estimated == HasOutcome /\ client.kind \in {"ollama", "huggingface"}

\* C24: every outcome that carries token counts has total_tokens =
\* input_tokens + output_tokens, also when the counts are estimated from
\* words, and input_tokens = output_tokens = 0 when it failed.
C24_TotalIsInputPlusOutput ==
    HasOutcome /\ "total_tokens" \in DOMAIN Outcome =>
        /\ Outcome.total_tokens = Outcome.input_tokens + Outcome.output_tokens
        /\ ~Outcome.success => Outcome.input_tokens = 0 /\ Outcome.output_tokens = 0

\* What holds instead: the mock client's total is the sum, a failed outcome
\* has zero counts, and the total of a local client is the sum or one more.
TotalWithinOneOfSum ==
    HasOutcome /\ "total_tokens" \in DOMAIN Outcome =>
        /\ Outcome.total_tokens - (Outcome.input_tokens + Outcome.output_tokens)
               \in (IF Estimated THEN {0, 1} ELSE {0})
        /\ ~Outcome.success => Outcome.input_tokens = 0 /\ Outcome.output_tokens = 0

\* The Ollama client has estimated 5 and 7 tokens for a prompt of 4 words
\* and a reply of 6 words, and 13 tokens in total.
TotalAboveSum ==
    /\ HasOutcome /\ client.kind = "ollama"
    /\ call.prompt = ShortPrompt /\ call.reply_words = 6
    /\ Outcome.input_tokens = 5 /\ Outcome.output_tokens = 7
    /\ Outcome.total_tokens = 13

---------------------------------------------------------------------------
(* Properties of the prompts of a run *)

\* custom_prompts[(k - 1) mod m], with 0-based indexing as in the source.
Cycled(k) ==
    config.custom_prompts[((k - 1) % Len(config.custom_prompts)) + 1]

PromptsAcquired == pc \in {"sequential", "concurrent", "done"}

CustomPromptsCycled ==
    config.custom_prompts # <<>> =>
        /\ PromptsAcquired =>
               /\ Len(prompts) = config.num_requests
               /\ \A k \in DOMAIN prompts : prompts[k] = Cycled(k)
        /\ \A i \in DOMAIN results :
               results[i]["prompt"] = Cycled(results[i]["request_id"])
        /\ Returned_ =>
               /\ Len(Outcomes) = config.num_requests
               /\ \A i \in DOMAIN Outcomes :
                      Outcomes[i]["prompt"] = Cycled(Outcomes[i]["request_id"])

\* C25: with custom_prompts of length m > 0 and num_requests n, exactly n
\* prompts are used, and in sequential and in pooled dispatch the outcome
\* with request id k carries custom_prompts[(k - 1) mod m]; no step of the
\* run changes config.custom_prompts.
C25_CustomPromptsCycle ==
    /\ []CustomPromptsCycled
    /\ [][config.custom_prompts' = config.custom_prompts]_vars

\* A pooled run of 3 requests over 2 custom prompts has returned, and its
\* third outcome carries the first custom prompt again.
C25_Witness ==
    /\ Returned_ /\ Pooled
    /\ config.custom_prompts = <<ShortPrompt, LongPrompt>>
    /\ config.num_requests = 3
    /\ Outcomes[3]["prompt"] = ShortPrompt

\* A sequential run of 1 request over 2 custom prompts has returned.
C25_WitnessFewer ==
    /\ Returned_ /\ ~Pooled
    /\ Len(config.custom_prompts) = 2
    /\ config.num_requests = 1
    /\ Outcomes[1]["prompt"] = ShortPrompt

---------------------------------------------------------------------------
(* Properties of the dispatch *)

AllCalled == \A k \in DOMAIN futures : futures[k].state = "done"

DispatchBounded ==
    /\ Cardinality(InFlight) <= config.concurrent_requests
    /\ ~Pooled => /\ futures = <<>>
                  /\ \A i \in DOMAIN results : results[i]["request_id"] = i
    /\ pc \in {"concurrent", "unwinding"} => Len(futures) = config.num_requests
    /\ Pooled /\ HasReport =>
           AllCalled /\ Len(results) = config.num_requests

\* C26: the calls of run_prompt in flight are never more than
\* concurrent_requests; with concurrent_requests = 1 the results arrive in
\* the order of the requests, one call at a time; with more, every prompt is
\* submitted to the pool, every submitted call is eventually made and ended,
\* and the report is computed only once all num_requests results are in.
C26_BoundedDispatch ==
    /\ []DispatchBounded
    /\ (pc \in {"concurrent", "unwinding"}) ~> AllCalled

\* Both threads of the pool are in a call while a third call is queued.
C26_Witness ==
    /\ pc = "concurrent"
    /\ Cardinality(InFlight) = config.concurrent_requests
    /\ config.concurrent_requests = MaxConcurrency
    /\ Pending # {}

\* A pooled run has returned its report after all its calls.
C26_WitnessReturned ==
    /\ Returned_ /\ Pooled /\ AllCalled
    /\ Len(futures) = MaxRequests

AttributeFault == "object has no attribute 'model'"
ConversionFailed == pc \in {"unwinding", "aborted"} /\ failure = AttributeFault

\* C27: in pooled dispatch, with any client that has run_prompt, an
\* exception of the call for request k becomes an outcome with request id k,
\* its prompt, success = False, no tokens and the exception's message; the
\* conversion itself never fails.
C27_FaultConverted ==
    Pooled =>
        /\ ~ConversionFailed
        /\ \A i \in DOMAIN results :
               results[i]["prompt"] = BadPrompt /\ client.kind = "mock" =>
                   results[i] = error_result(results[i]["request_id"], BadPrompt,
                                    "object of type 'NoneType' has no len()",
                                    client.model)

\* What holds instead: with a client that has the attribute model the
\* conversion never fails and gives that outcome; it fails only for a client
\* without the attribute, and then no report is returned.
FaultConvertedWithModel ==
    /\ Pooled /\ client.model # NoAttr =>
           /\ ~ConversionFailed
           /\ \A i \in DOMAIN results :
                  results[i]["prompt"] = BadPrompt /\ client.kind = "mock" =>
                      results[i] = error_result(results[i]["request_id"], BadPrompt,
                                       "object of type 'NoneType' has no len()",
                                       client.model)
    /\ ConversionFailed => Pooled /\ client.model = NoAttr /\ ~HasReport

\* The first call of a pooled run has raised, the conversion has failed, and
\* the other calls are still to be made.
ConversionFailedFirst ==
    /\ pc = "unwinding" /\ failure = AttributeFault
    /\ results = <<>> /\ Pending # {}

\* The mock client's exception in a pooled run has become an outcome of the
\* report.
FaultInReport ==
    /\ Returned_ /\ Pooled /\ client.kind = "mock"
    /\ \E i \in DOMAIN Outcomes :
           /\ Outcomes[i]["prompt"] = BadPrompt
           /\ ~Outcomes[i]["success"]
           /\ Outcomes[i]["error"] = "object of type 'NoneType' has no len()"

---------------------------------------------------------------------------
(* Properties of the tracker during the run *)

Dispatching == pc \in {"sequential", "concurrent", "unwinding"}

\* C28: a run that passes the budget check calls start_test once, after the
\* check and before its first record_test_cost, and the call changes only
\* current_test_cost: until the costs are recorded the history and the daily
\* totals are as before the run and the current total is 0; a run the check
\* stops leaves the tracker as it was; and when the run returns, the
\* current total is the report's total_cost, also on a tracker that earlier
\* runs have used.
C28_StartTestOnce ==
    /\ Dispatching =>
           /\ current_test_cost = 0
           /\ costs_history = before.history
           /\ daily_costs = before.daily
    /\ pc = "aborted" /\ failure \in BudgetErrors => Ledger = before
    /\ Returned_ => current_test_cost = report.total_cost

\* A run on a tracker whose current total came from an earlier run has
\* returned with a cost of its own.
C28_Witness ==
    /\ Returned_
    /\ before.current > 0
    /\ report.total_cost > 0
    /\ report.total_cost # before.current
    /\ current_test_cost = report.total_cost

---------------------------------------------------------------------------
(* Properties of the attempts of the OpenAI client *)

Attempts == call.attempts
AllFailed == \A i \in DOMAIN Attempts : ~Attempts[i].ok

AttemptsBounded ==
    call.op = "run_prompt" /\ client.kind = "openai" =>
        /\ Len(Attempts) <= client.max_retries + 1
        /\ \A i \in DOMAIN Attempts : i < Len(Attempts) => ~Attempts[i].ok
        /\ CallEnded =>
               /\ ~call.ret.raised
               /\ Len(Attempts) >= 1
               /\ Outcome.success = ~AllFailed
               /\ AllFailed =>
                      /\ Len(Attempts) = client.max_retries + 1
                      /\ Outcome.error = Attempts[Len(Attempts)].error
                      /\ Outcome.latency = call.clock
                      /\ Outcome.latency >= Sum(call.durations)

\* C29: run_prompt of the OpenAI client makes at most max_retries + 1
\* attempts and none after the first that succeeds; it always ends by
\* returning a result and never raises; and when every attempt failed the
\* result has success = False, the error of the last attempt, and a latency
\* that spans all the attempts.
C29_RetriesBounded ==
    /\ []AttemptsBounded
    /\ <>CallEnded

\* Every allowed attempt has failed, and the latency holds the waits
\* between them as well.
C29_Witness ==
    /\ CallEnded /\ client.kind = "openai"
    /\ client.max_retries = MaxCallRetries
    /\ Len(Attempts) = MaxCallRetries + 1
    /\ AllFailed
    /\ ~Outcome.success
    /\ Outcome.latency > Sum(call.durations)

\* The first attempt succeeded and no other was made, of several allowed.
C29_WitnessFirst ==
    /\ CallEnded /\ client.kind = "openai"
    /\ client.max_retries = MaxCallRetries
    /\ Len(Attempts) = 1
    /\ Outcome.success

---------------------------------------------------------------------------
(* Properties of the costs a run records *)

EntriesNonNegative ==
    /\ \A i \in DOMAIN Appended :
           /\ Appended[i].input_tokens >= 0
           /\ Appended[i].output_tokens >= 0
           /\ Appended[i].total_cost >= 0
    /\ Returned_ =>
           /\ current_test_cost >= 0
           /\ get_daily_cost(daily_costs, today) >= get_daily_cost(before.daily, today)

\* C30: every cost a run records has input_tokens >= 0, output_tokens >= 0
\* and total_cost >= 0, for every successful outcome of every client, so
\* that the total of today and the total of the current run do not go down.
C30_CostsNonNegative == pc \in {"done", "aborted"} => EntriesNonNegative

\* What holds instead: the costs are not negative for the clients whose
\* results carry input_tokens, of at most 100 tokens.
CostsNonNegativeWithInputTokens ==
    client.kind # "openai" => EntriesNonNegative

\* A run with the OpenAI client has returned with a negative total cost and
\* a total of today below the one before the run.
CostWentDown ==
    /\ Returned_ /\ client.kind = "openai"
    /\ report.total_cost < 0
    /\ get_daily_cost(daily_costs, today) < get_daily_cost(before.daily, today)
    /\ \E i \in DOMAIN Appended : Appended[i].output_tokens < 0

====
